---- MODULE Spec2Model ----
(***************************************************************************)
(* Analytical core of the threat-intelligence dashboards.                  *)
(*                                                                         *)
(* Two dashboards share the core: src/dashboard.py (variant "app") and     *)
(* src/dashboard/dashboard.py (variant "pkg").  One behaviour of the model *)
(* is one view of one dashboard: the loader query of the view, then the    *)
(* function that turns the loaded rows into a graph, a cluster assignment  *)
(* or a risk ranking.                                                      *)
(***************************************************************************)
EXTENDS Integers, Sequences, FiniteSets, TLC

VARIABLES
    variant,        \* "app" (src/dashboard.py) or "pkg" (src/dashboard/dashboard.py)
    pc,             \* position of the view
    raised,         \* "none", or the exception that ended the view
    flows,          \* table int_cross_border_flows: a set of rows
    network_data,   \* rows returned by the network query, in result order
    G,              \* the networkx DiGraph: nodes in insertion order, arcs with attributes
    pos,            \* result of spring_layout: node -> coordinate
    fig,            \* the traces handed to plotly
    clustering_data,\* the caller's feature table (clustering_data / cluster_df)
    X,              \* df[features].fillna(0): one tuple of nine numbers per row
    scaler,         \* what StandardScaler fitted: n and, per column, sum and sum of squares
    Xs,             \* the standardized matrix, in fixed point
    labels,         \* result of KMeans.fit_predict, one label per row
    clustered_df,   \* the table the clustering function returns
    forecasting,    \* table forecasting_dataset: a set of rows
    forecast_data,  \* rows returned by the forecasting query, in result order
    chart,          \* the indicator create_prediction_chart computes (app)
    latest_data,    \* the rows of the latest year, with their risk score
    high_risk,      \* the top rows by risk score (high_risk / top_risk)
    frames,         \* the DataFrame objects of the feature table: the one st.cache_data
                    \* holds (0) and the one each session was handed
    sess,           \* the sessions that run a view side by side
    seeded,         \* what the generator seeded with random_state gave so far:
                    \* standardized matrix -> initial centres
    runs,           \* number of calls of the view's function so far
    completed,      \* KMeans.fit: the restarts that have completed -> their inertia
    best,           \* KMeans.fit: best_labels and best_inertia
    lowest,         \* the earliest restart among those of lowest inertia so far
    conn,           \* the connection st.cache_resource holds: "none", "open" or "closed"
    data_cache,     \* the pages whose query result st.cache_data holds
    render,         \* the page main() renders and the connection its query ran on
    renders,        \* number of runs of main() so far
    schemas,        \* the schemas of the database
    sheet,          \* the first sheet of the GTD Excel file
    gtd_df,         \* the DataFrame of gtd_raw_data
    gtd_incidents   \* the table written by to_sql, with the schema it is in

netVars == <<flows, network_data, G, pos, fig>>
clusterVars == <<clustering_data, X, scaler, Xs, labels, clustered_df>>
riskVars == <<forecasting, forecast_data, chart, latest_data, high_risk>>
runVars == <<frames, sess, seeded, runs>>
fitVars == <<completed, best, lowest>>
mainVars == <<conn, data_cache, render, renders>>
ingestVars == <<schemas, sheet, gtd_df, gtd_incidents>>
vars == <<variant, pc, raised, netVars, clusterVars, riskVars, runVars, fitVars, mainVars,
          ingestVars>>

(***************************************************************************)
(* Bounds of the model.                                                    *)
(***************************************************************************)
MaxFlows == 2
MaxFeatureRows == 5
MaxLloydIterations == 3
MaxYearly == 2

Countries == {"A", "B", "C"}
Weights == {5, 7, 10}
Groups == {2}
Intensities == {1, 2}
YearlyCountries == {"X", "Y"}
Years == {2012, 2022, 2023}
\* <<momentum, volatility, prior_year_spike>>
RiskInputs == {<<0, 0, 0>>, <<1, 0, 0>>, <<0, 1, 0>>, <<1, 1, 1>>}
Incidents == {0, 3}

(***************************************************************************)
(* Generic helpers.                                                        *)
(***************************************************************************)
Range(s) == {s[i] : i \in DOMAIN s}

Min(a, b) == IF a < b THEN a ELSE b

SeqsUpTo(S, n) == UNION {[1..m -> S] : m \in 0..n}

\* the sequence f as an explicit tuple
AsTuple(f) == f \o <<>>

Reverse(s) == AsTuple([i \in DOMAIN s |-> s[Len(s) + 1 - i]])

(***************************************************************************)
(* Loader of the network view.                                             *)
(***************************************************************************)
\* Threshold of the query: WHERE cf.total_spillover_attacks > 5
MinWeight == 5

\* LIMIT of the query, per dashboard
NetworkLimitApp == 100
NetworkLimitPkg == 300

FlowRow == [source_country : Countries, target_country : Countries, weight : Weights,
            num_shared_groups : Groups, spillover_intensity_score : Intensities]

FlowTables == {Range(s) : s \in SeqsUpTo(FlowRow, MaxFlows)}

\* Mutant of PassesThreshold: the comparison written >=
PassesThresholdInclusive(r) == r.weight >= MinWeight

\* WHERE clause
PassesThreshold(r) == r.weight > MinWeight

\* SELECT DISTINCT ... WHERE ...: the distinct rows that pass the filter
SelectFlows(tbl) == {r \in tbl : PassesThreshold(r)}

\* ORDER BY spillover_intensity_score DESC: every order of the selected rows
\* that is descending in intensity (rows of equal intensity come in any order)
OrderByIntensity(S) ==
    {s \in [1..Cardinality(S) -> S] :
        /\ Range(s) = S
        /\ \A i \in 1..(Cardinality(S) - 1) :
              s[i].spillover_intensity_score >= s[i + 1].spillover_intensity_score}

\* LIMIT n
Limit(s, n) == SubSeq(s, 1, Min(Len(s), n))

NetworkLimit(v) == IF v = "app" THEN NetworkLimitApp ELSE NetworkLimitPkg

\* every result the query can return for the table
NetworkQuery(tbl, v) == {Limit(s, NetworkLimit(v)) : s \in OrderByIntensity(SelectFlows(tbl))}

(***************************************************************************)
(* networkx.DiGraph as the dashboards use it.                              *)
(***************************************************************************)
\* nodes: G.nodes in insertion order; order: the arcs in the order they were
\* first inserted; adj: arc -> attribute dictionary
EmptyGraph == [nodes |-> <<>>, order |-> <<>>, adj |-> <<>>]

NodeSet(g) == Range(g.nodes)

ArcSet(g) == DOMAIN g.adj

AddNode(nodes, n) == IF n \in Range(nodes) THEN nodes ELSE Append(nodes, n)

\* dict.update: the keys of new replace those of old
DictUpdate(old, new) ==
    [k \in (DOMAIN old) \cup (DOMAIN new) |-> IF k \in DOMAIN new THEN new[k] ELSE old[k]]

\* Mutant of add_edge: only the source endpoint becomes a node
AddEdgeSourceOnly(g, u, v, attr) ==
    LET old == IF <<u, v>> \in DOMAIN g.adj THEN g.adj[<<u, v>>] ELSE <<>>
        new == DictUpdate(old, attr)
    IN  [nodes |-> AddNode(g.nodes, u),
         order |-> IF <<u, v>> \in DOMAIN g.adj THEN g.order ELSE Append(g.order, <<u, v>>),
         adj   |-> [e \in (DOMAIN g.adj) \cup {<<u, v>>} |->
                       IF e = <<u, v>> THEN new ELSE g.adj[e]]]

\* Mutant of add_edge: a repeated arc adds its weight to the one already there
AddEdgeSumWeights(g, u, v, attr) ==
    LET seen == <<u, v>> \in DOMAIN g.adj
        new == IF seen
               THEN [attr EXCEPT !.weight = g.adj[<<u, v>>].weight + attr.weight]
               ELSE attr
    IN  [nodes |-> AddNode(AddNode(g.nodes, u), v),
         order |-> IF seen THEN g.order ELSE Append(g.order, <<u, v>>),
         adj   |-> [e \in (DOMAIN g.adj) \cup {<<u, v>>} |->
                       IF e = <<u, v>> THEN new ELSE g.adj[e]]]

\* G.add_edge(u, v, **attr): both endpoints become nodes, the arc's
\* attribute dictionary is created or updated
add_edge(g, u, v, attr) ==
    LET old == IF <<u, v>> \in DOMAIN g.adj THEN g.adj[<<u, v>>] ELSE <<>>
        new == DictUpdate(old, attr)
    IN  [nodes |-> AddNode(AddNode(g.nodes, u), v),
         order |-> IF <<u, v>> \in DOMAIN g.adj THEN g.order ELSE Append(g.order, <<u, v>>),
         adj   |-> [e \in (DOMAIN g.adj) \cup {<<u, v>>} |->
                       IF e = <<u, v>> THEN new ELSE g.adj[e]]]

RowAttr(row) ==
    [weight |-> row.weight, groups |-> row.num_shared_groups,
     intensity |-> row.spillover_intensity_score]

\* Mutant of iterrows: the rows come in index order or against it
IterrowsEitherWay(df) == {df, Reverse(df)}

\* df.iterrows(): the orders in which the rows come, which is the index order
iterrows(df) == {df}

\* for _, row in df.iterrows(): G.add_edge(...)
RECURSIVE BuildGraph(_, _)
BuildGraph(g, rows) ==
    IF rows = <<>> THEN g
    ELSE BuildGraph(add_edge(g, Head(rows).source_country, Head(rows).target_country,
                             RowAttr(Head(rows))),
                    Tail(rows))

InDegree(g, n) == Cardinality({e \in ArcSet(g) : e[2] = n})
OutDegree(g, n) == Cardinality({e \in ArcSet(g) : e[1] = n})

\* Mutant of Degree: the number of arcs at the node, a self-loop counted once
DegreeIncidentArcs(g, n) == Cardinality({e \in ArcSet(g) : e[1] = n \/ e[2] = n})

\* DiGraph.degree: in-degree plus out-degree (a self-loop counts twice)
Degree(g, n) == InDegree(g, n) + OutDegree(g, n)

\* G.edges(): for every node in node order, its out-arcs in insertion order
RECURSIVE EdgesFrom(_, _)
EdgesFrom(g, ns) ==
    IF ns = <<>> THEN <<>>
    ELSE SelectSeq(g.order, LAMBDA e : e[1] = Head(ns)) \o EdgesFrom(g, Tail(ns))

EdgeList(g) == EdgesFrom(g, g.nodes)

IndexOf(s, x) == CHOOSE i \in DOMAIN s : s[i] = x

(***************************************************************************)
(* networkx.spring_layout.  The Fruchterman-Reingold iteration is not      *)
(* modelled numerically: the coordinate of a node is the token             *)
(* <<seed, k, iterations, i>> for the i-th node of the graph, which is what *)
(* the seeded iteration is a function of for a given graph.  The empty     *)
(* graph gives the empty map and a single node is placed at the centre.    *)
(* seed is the stream of the generator the layout draws from.              *)
(***************************************************************************)
Centre == <<0, 0, 0, 0>>

\* Mutant of np_random_state: seed=None, the global generator of numpy in
\* whatever state earlier draws left it
GlobalRandomState(seed) == {seed, seed + 1}

\* networkx np_random_state: an integer seed gives a new RandomState(seed)
\* on every call; the streams the layout can draw from
np_random_state(seed) == {seed}

\* Mutant of spring_layout: the rescaling of a single position divides by
\* its extent, which is 0
SpringLayoutSingleNodeFails(g, k10, iterations, seed) ==
    IF Len(g.nodes) = 0 THEN [raised |-> "none", pos |-> <<>>]
    ELSE IF Len(g.nodes) = 1 THEN [raised |-> "ZeroDivisionError", pos |-> <<>>]
    ELSE [raised |-> "none",
          pos |-> [n \in NodeSet(g) |-> <<seed, k10, iterations, IndexOf(g.nodes, n)>>]]

\* Mutant of spring_layout: no early return for the empty graph
SpringLayoutNoEmptyCase(g, k10, iterations, seed) ==
    IF Len(g.nodes) = 0 THEN [raised |-> "ValueError", pos |-> <<>>]
    ELSE [raised |-> "none",
          pos |-> [n \in NodeSet(g) |-> <<seed, k10, iterations, IndexOf(g.nodes, n)>>]]

spring_layout(g, k10, iterations, seed) ==
    IF Len(g.nodes) = 0 THEN [raised |-> "none", pos |-> <<>>]
    ELSE IF Len(g.nodes) = 1 THEN [raised |-> "none", pos |-> [n \in NodeSet(g) |-> Centre]]
    ELSE [raised |-> "none",
          pos |-> [n \in NodeSet(g) |-> <<seed, k10, iterations, IndexOf(g.nodes, n)>>]]

\* pos[n] raises KeyError for a node the layout did not place
Placed(p, n) == n \in DOMAIN p

(***************************************************************************)
(* create_network_graph (src/dashboard.py) and network_graph               *)
(* (src/dashboard/dashboard.py).                                           *)
(***************************************************************************)
NoFigure == [title |-> "", edge_traces |-> <<>>, node_xy |-> <<>>, node_size |-> <<>>,
             node_text |-> <<>>]

\* one line trace per arc; the width is a function of the arc's weight
EdgeTraces(g, p) ==
    [i \in DOMAIN EdgeList(g) |->
        LET e == EdgeList(g)[i]
        IN  [from |-> p[e[1]], to |-> p[e[2]], weight |-> g.adj[e].weight]]

\* line=dict(width=np.log1p(weight) * 0.5): a weight below 0 gives a width
\* below 0, or none at all, which plotly rejects with ValueError
EdgeWidthsValidApp(g) == \A e \in ArcSet(g) : g.adj[e].weight >= 0

AllPlaced(g, p) ==
    /\ \A e \in ArcSet(g) : Placed(p, e[1]) /\ Placed(p, e[2])
    /\ \A n \in NodeSet(g) : Placed(p, n)

\* layout parameters, k in tenths
LayoutKApp == 20
LayoutIterationsApp == 50
LayoutKPkg == 16
LayoutIterationsPkg == 60
LayoutSeed == 42

NetworkFigureApp(g, p) ==
    [title |-> "Cross-Border Terrorism Network",
     edge_traces |-> EdgeTraces(g, p),
     node_xy |-> [i \in DOMAIN g.nodes |-> p[g.nodes[i]]],
     node_size |-> [i \in DOMAIN g.nodes |-> 10 + Degree(g, g.nodes[i]) * 3],
     node_text |-> [i \in DOMAIN g.nodes |->
                      [node |-> g.nodes[i], incoming |-> InDegree(g, g.nodes[i]),
                       outgoing |-> OutDegree(g, g.nodes[i])]]]

NetworkFigurePkg(g, p) ==
    [title |-> "Cross-Border Terrorism Network",
     edge_traces |-> EdgeTraces(g, p),
     node_xy |-> [i \in DOMAIN g.nodes |-> p[g.nodes[i]]],
     node_size |-> [i \in DOMAIN g.nodes |-> 8 + Degree(g, g.nodes[i]) * 2],
     node_text |-> [i \in DOMAIN g.nodes |->
                      [node |-> g.nodes[i], deg |-> Degree(g, g.nodes[i])]]]

EmptyFigurePkg == [NoFigure EXCEPT !.title = "No edges to display."]

(***************************************************************************)
(* Arithmetic.  Standardized values are kept in fixed point, FixedPoint    *)
(* units to 1.0.                                                           *)
(***************************************************************************)
FixedPoint == 100

Abs(a) == IF a < 0 THEN 0 - a ELSE a

\* division rounding toward zero
Quot(a, b) == IF a < 0 THEN 0 - ((0 - a) \div b) ELSE a \div b

RECURSIVE IsqrtBetween(_, _, _)
IsqrtBetween(v, lo, hi) ==
    IF lo >= hi THEN lo
    ELSE LET mid == (lo + hi + 1) \div 2
         IN  IF mid * mid <= v THEN IsqrtBetween(v, mid, hi) ELSE IsqrtBetween(v, lo, mid - 1)

\* integer square root
Isqrt(v) == IsqrtBetween(v, 0, Min(v, 40000))

RECURSIVE SumUpTo(_, _)
SumUpTo(s, n) == IF n = 0 THEN 0 ELSE s[n] + SumUpTo(s, n - 1)

SumSeq(s) == SumUpTo(s, Len(s))

Column(m, j) == AsTuple([i \in DOMAIN m |-> m[i][j]])

(***************************************************************************)
(* Feature table of the clustering view.                                   *)
(***************************************************************************)
\* features = [...]: the caller's feature list, in its order
FeatureList ==
    <<"normalized_attack_volume", "normalized_lethality", "normalized_geographic_reach",
      "suicide_attack_rate_pct", "success_rate_pct", "explosives_pct",
      "firearms_pct", "govt_target_pct", "civilian_target_pct">>

Features == Range(FeatureList)

VolumeFeatures ==
    {"normalized_attack_volume", "normalized_lethality", "normalized_geographic_reach"}

\* a cell of the table: a number, NULL, or a value that is no number
Num(v) == [kind |-> "num", v |-> v]
NA == [kind |-> "na", v |-> 0]
Text == [kind |-> "str", v |-> 0]

FeatureRow(name, attacks, vol, pct, missing, text) ==
    [primary_group |-> name,
     total_attacks |-> attacks,
     features |-> [f \in Features |->
                     IF f \in text THEN Text
                     ELSE IF f \in missing THEN NA
                     ELSE Num(IF f \in VolumeFeatures THEN vol ELSE pct)]]

\* the rows a feature table is drawn from: complete rows, rows with NULL in
\* some or all feature columns, and a row with a non-numeric value
FeatureRows ==
    {FeatureRow("g1", 9, 4, 1, {}, {}),
     FeatureRow("g2", 7, 2, 3, {}, {}),
     FeatureRow("g3", 7, 0, 2, {"normalized_lethality", "explosives_pct"}, {}),
     FeatureRow("g4", 5, 1, 0, Features, {}),
     FeatureRow("g5", 3, 3, 3, {"civilian_target_pct"}, {}),
     FeatureRow("g6", 1, 1, 1, {}, {"success_rate_pct"})}

\* LIMIT of the query, per dashboard
ClusteringLimitApp == 100
ClusteringLimitPkg == 300

ClusteringLimit(v) == IF v = "app" THEN ClusteringLimitApp ELSE ClusteringLimitPkg

\* SELECT * FROM dbt_marts.group_clustering_features ORDER BY total_attacks DESC LIMIT n:
\* every result of at most MaxFeatureRows rows
ClusteringQuery(v) ==
    {Limit(s, ClusteringLimit(v)) :
        s \in {t \in SeqsUpTo(FeatureRows, MaxFeatureRows) :
                 \A i \in 1..(Len(t) - 1) : t[i].total_attacks >= t[i + 1].total_attacks}}

(***************************************************************************)
(* X = df[features].fillna(0)                                              *)
(***************************************************************************)
\* fillna(0) on one cell: only a missing value is replaced
FillNa(cell) == IF cell.kind = "na" THEN Num(0) ELSE cell

\* df[features]: the feature columns, in the order of the list
SelectFeatures(row) == AsTuple([j \in DOMAIN FeatureList |-> row.features[FeatureList[j]]])

\* Mutant of FeatureMatrix: dropna() in place of fillna(0)
FeatureMatrixDropNa(df) ==
    LET kept == SelectSeq(df, LAMBDA row : \A f \in Features : row.features[f].kind # "na")
    IN  AsTuple([i \in DOMAIN kept |-> SelectFeatures(kept[i])])

\* mean of the numbers present in a column, 0 for a column without numbers
PresentMean(df, f) ==
    LET present == {i \in DOMAIN df : df[i].features[f].kind = "num"}
        total == SumSeq(AsTuple([i \in DOMAIN df |->
                                   IF i \in present THEN df[i].features[f].v ELSE 0]))
    IN  IF present = {} THEN 0 ELSE Quot(total, Cardinality(present))

\* Mutant of FeatureMatrix: a missing value is filled with the mean of its column
FeatureMatrixMeanFill(df) ==
    AsTuple([i \in DOMAIN df |->
                AsTuple([j \in DOMAIN FeatureList |->
                            IF SelectFeatures(df[i])[j].kind = "na"
                            THEN Num(PresentMean(df, FeatureList[j]))
                            ELSE SelectFeatures(df[i])[j]])])

FeatureMatrix(df) ==
    AsTuple([i \in DOMAIN df |->
                AsTuple([j \in DOMAIN FeatureList |-> FillNa(SelectFeatures(df[i])[j])])])

\* conversion of the matrix to float fails on a cell that is no number
Convertible(m) == \A i \in DOMAIN m : \A j \in DOMAIN m[i] : m[i][j].kind = "num"

AsFloat(m) == AsTuple([i \in DOMAIN m |-> AsTuple([j \in DOMAIN m[i] |-> m[i][j].v])])

(***************************************************************************)
(* sklearn StandardScaler: fit keeps, per column, the mean and the         *)
(* population variance; kept here as n, the column sum and the column sum  *)
(* of squares (mean = sum / n, variance = (n * sumsq - sum^2) / n^2).      *)
(***************************************************************************)
Unfitted == [n |-> 0, sum |-> <<>>, sumsq |-> <<>>]

ScalerFit(m) ==
    [n |-> Len(m),
     sum |-> AsTuple([j \in DOMAIN FeatureList |-> SumSeq(Column(m, j))]),
     sumsq |-> AsTuple([j \in DOMAIN FeatureList |->
                          SumSeq(AsTuple([i \in DOMAIN m |-> m[i][j] * m[i][j]]))])]

\* n^2 times the variance of column j
VarTimesN2(sc, j) == sc.n * sc.sumsq[j] - sc.sum[j] * sc.sum[j]

\* Mutant of Standardize: with_mean=False, the value is scaled but not centred
StandardizeNoCentering(sc, j, x) ==
    IF VarTimesN2(sc, j) = 0 THEN x * FixedPoint
    ELSE Quot(sc.n * x * FixedPoint * FixedPoint,
              Isqrt(VarTimesN2(sc, j) * FixedPoint * FixedPoint))

\* (x - mean) / scale, where scale is the standard deviation, or 1 for a
\* column of zero variance
Standardize(sc, j, x) ==
    IF VarTimesN2(sc, j) = 0 THEN Quot((sc.n * x - sc.sum[j]) * FixedPoint, sc.n)
    ELSE Quot((sc.n * x - sc.sum[j]) * FixedPoint * FixedPoint,
              Isqrt(VarTimesN2(sc, j) * FixedPoint * FixedPoint))

ScalerTransform(sc, m) ==
    AsTuple([i \in DOMAIN m |->
                AsTuple([j \in DOMAIN FeatureList |-> Standardize(sc, j, m[i][j])])])

(***************************************************************************)
(* sklearn KMeans(n_clusters=5, random_state=42, n_init=10).fit_predict.   *)
(* The initial centres are n_clusters of the samples, picked by the seeded *)
(* generator; the model takes every choice of samples, the centres in      *)
(* sample order.  Then Lloyd's iteration: assign every sample to its       *)
(* nearest centre, move every centre to the mean of its samples.  The      *)
(* generator is created from random_state on every call, so what it picks  *)
(* is a function of the matrix: the first pick for a matrix is any choice, *)
(* a later pick for the same matrix is the same choice.                    *)
(***************************************************************************)
NClusters == 5
RandomState == 42

RECURSIVE SqDistUpTo(_, _, _)
SqDistUpTo(a, b, n) ==
    IF n = 0 THEN 0 ELSE (a[n] - b[n]) * (a[n] - b[n]) + SqDistUpTo(a, b, n - 1)

\* squared Euclidean distance
SqDist(a, b) == SqDistUpTo(a, b, Len(a))

\* index of the nearest centre, the lowest index among equally near ones
Nearest(x, centres) ==
    LET dist == AsTuple([c \in DOMAIN centres |-> SqDist(x, centres[c])])
    IN  CHOOSE c \in DOMAIN centres :
            \A d \in DOMAIN centres : dist[c] < dist[d] \/ (dist[c] = dist[d] /\ c <= d)

Assign(m, centres) == AsTuple([i \in DOMAIN m |-> Nearest(m[i], centres)])

Members(assign, c) == {i \in DOMAIN assign : assign[i] = c}

\* the mean of the samples assigned to centre c; a centre without samples stays
MoveCentre(m, assign, centres, c) ==
    IF Members(assign, c) = {} THEN centres[c]
    ELSE AsTuple([j \in DOMAIN FeatureList |->
            Quot(SumSeq(AsTuple([i \in DOMAIN m |-> IF assign[i] = c THEN m[i][j] ELSE 0])),
                 Cardinality(Members(assign, c)))])

RECURSIVE Lloyd(_, _, _)
Lloyd(m, centres, iter) ==
    LET assign == Assign(m, centres)
        moved == AsTuple([c \in DOMAIN centres |-> MoveCentre(m, assign, centres, c)])
    IN  IF moved = centres THEN assign
        ELSE IF iter >= MaxLloydIterations THEN Assign(m, moved)
        ELSE Lloyd(m, moved, iter + 1)

\* the choices of n_clusters samples as initial centres
RECURSIVE Ascending(_)
Ascending(S) ==
    IF S = {} THEN <<>>
    ELSE LET x == CHOOSE y \in S : \A z \in S : y <= z
         IN  <<x>> \o Ascending(S \ {x})

InitChoices(m) == {Ascending(S) : S \in {T \in SUBSET (DOMAIN m) : Cardinality(T) = NClusters}}

\* Mutant of SeededInits: random_state=None, every call draws afresh
UnseededInits(memo, m) == InitChoices(m)

\* the picks of a generator seeded with random_state, given its picks so far
SeededInits(memo, m) == IF m \in DOMAIN memo THEN {memo[m]} ELSE InitChoices(m)

\* the picks so far, with the pick for matrix m
Remember(memo, m, init) ==
    [x \in (DOMAIN memo) \cup {m} |-> IF x = m THEN init ELSE memo[x]]

\* Mutant of KMeansLabels: the labels counted from 1
KMeansLabelsFromOne(m, init) ==
    LET assign == Lloyd(m, AsTuple([c \in 1..NClusters |-> m[init[c]]]), 1)
    IN  AsTuple([i \in DOMAIN m |-> assign[i]])

\* labels are the indices of the centres, counted from 0
KMeansLabels(m, init) ==
    LET assign == Lloyd(m, AsTuple([c \in 1..NClusters |-> m[init[c]]]), 1)
    IN  AsTuple([i \in DOMAIN m |-> assign[i] - 1])

\* df['cluster'] = labels
WithCluster(df, lab) ==
    AsTuple([i \in DOMAIN df |->
        [primary_group |-> df[i].primary_group, total_attacks |-> df[i].total_attacks,
         features |-> df[i].features, cluster |-> lab[i]]])

(***************************************************************************)
(* Yearly records of the predictive view.  Momentum, volatility and spike  *)
(* are small integers; a risk score is kept in tenths.                     *)
(***************************************************************************)
YearlyRow ==
    {[country |-> c, year |-> y, incidents_momentum |-> in[1],
      incidents_volatility |-> in[2], prior_year_spike |-> in[3], incidents_lag1 |-> n] :
        c \in YearlyCountries, y \in Years, in \in RiskInputs, n \in Incidents}

YearlyTables == {Range(s) : s \in SeqsUpTo(YearlyRow, MaxYearly)}

MaxOf(S) == CHOOSE x \in S : \A y \in S : y <= x

\* the app query keeps the years from MAX(year) - 10 on
ForecastYearsBack == 10
\* LIMIT of the pkg query
ForecastLimitPkg == 2000

\* WHERE year >= (SELECT MAX(year) - 10 ...) (app); no WHERE clause (pkg)
SelectYearly(tbl, v) ==
    IF v = "app"
    THEN {r \in tbl : r.year >= MaxOf({q.year : q \in tbl}) - ForecastYearsBack}
    ELSE tbl

\* ORDER BY year DESC, country: rows of equal year and country come in any order
OrderByYearCountry(S) ==
    {s \in [1..Cardinality(S) -> S] :
        /\ Range(s) = S
        /\ \A i \in 1..(Cardinality(S) - 1) :
              \/ s[i].year > s[i + 1].year
              \/ (s[i].year = s[i + 1].year /\ s[i].country = s[i + 1].country)
              \/ (s[i].year = s[i + 1].year /\ s[i].country = "X" /\ s[i + 1].country = "Y")}

ForecastQuery(tbl, v) ==
    {IF v = "app" THEN s ELSE Limit(s, ForecastLimitPkg) :
        s \in OrderByYearCountry(SelectYearly(tbl, v))}

YearsOf(df) == {df[i].year : i \in DOMAIN df}

\* df.groupby('year').agg({'incidents_lag1': 'sum'}): the total of one year
IncidentsOfYear(df, y) ==
    SumSeq(AsTuple([i \in DOMAIN df |-> IF df[i].year = y THEN df[i].incidents_lag1 ELSE 0]))

NoChart == [latest_year |-> 0, latest_incidents |-> 0, prev_incidents |-> 0, pct_change |-> 0]

\* the risk indicator of create_prediction_chart; .values[0] of a year
\* without rows raises IndexError
PredictionChart(df) ==
    IF df = <<>> THEN [raised |-> "IndexError", chart |-> NoChart]
    ELSE LET latest == MaxOf(YearsOf(df))
         IN  IF (latest - 1) \notin YearsOf(df)
             THEN [raised |-> "IndexError", chart |-> NoChart]
             ELSE LET prev == IncidentsOfYear(df, latest - 1)
                      cur == IncidentsOfYear(df, latest)
                  IN  [raised |-> "none",
                       chart |-> [latest_year |-> latest, latest_incidents |-> cur,
                                  prev_incidents |-> prev,
                                  pct_change |-> IF prev > 0
                                                 THEN Quot((cur - prev) * 100, prev)
                                                 ELSE 0]]

\* weights of the composite score, in tenths
MomentumWeight == 4
VolatilityWeight == 3
SpikeWeight == 3

\* Mutant of RiskScore: the weights of momentum and volatility exchanged
RiskScoreWeightsExchanged(r) ==
    r.incidents_momentum * VolatilityWeight + r.incidents_volatility * MomentumWeight
        + r.prior_year_spike * SpikeWeight

\* momentum * 0.4 + volatility * 0.3 + prior_year_spike * 0.3, in tenths
RiskScore(r) ==
    r.incidents_momentum * MomentumWeight + r.incidents_volatility * VolatilityWeight
        + r.prior_year_spike * SpikeWeight

WithRisk(r) ==
    [country |-> r.country, year |-> r.year, incidents_momentum |-> r.incidents_momentum,
     incidents_volatility |-> r.incidents_volatility, prior_year_spike |-> r.prior_year_spike,
     incidents_lag1 |-> r.incidents_lag1, risk_score |-> RiskScore(r)]

\* the lowest score among the rows
RECURSIVE LowestScore(_)
LowestScore(rows) ==
    IF Len(rows) = 1 THEN RiskScore(rows[1])
    ELSE Min(RiskScore(Head(rows)), LowestScore(Tail(rows)))

\* Mutant of LatestScored: the scores rescaled to start at the lowest of the frame
LatestScoredFromLowest(df, latest) ==
    LET rows == SelectSeq(df, LAMBDA r : r.year = latest)
    IN  AsTuple([i \in DOMAIN rows |->
            [WithRisk(rows[i]) EXCEPT !.risk_score = RiskScore(rows[i]) - LowestScore(rows)]])

\* Mutant of LatestScored: the rows of every year are scored
LatestScoredEveryYear(df, latest) ==
    AsTuple([i \in DOMAIN df |-> WithRisk(df[i])])

\* forecast_data[forecast_data['year'] == latest_year].copy(), then the score column
LatestScored(df, latest) ==
    LET rows == SelectSeq(df, LAMBDA r : r.year = latest)
    IN  AsTuple([i \in DOMAIN rows |-> WithRisk(rows[i])])

\* insert a row into a list sorted by descending score, after the rows of
\* equal score
RECURSIVE InsertByScore(_, _)
InsertByScore(sorted, r) ==
    IF sorted = <<>> THEN <<r>>
    ELSE IF Head(sorted).risk_score >= r.risk_score
         THEN <<Head(sorted)>> \o InsertByScore(Tail(sorted), r)
         ELSE <<r>> \o sorted

RECURSIVE SortByScore(_, _)
SortByScore(sorted, rows) ==
    IF rows = <<>> THEN sorted
    ELSE SortByScore(InsertByScore(sorted, Head(rows)), Tail(rows))

\* insert a row into a list sorted by descending score, before the rows of
\* equal score
RECURSIVE InsertBeforeEqual(_, _)
InsertBeforeEqual(sorted, r) ==
    IF sorted = <<>> THEN <<r>>
    ELSE IF Head(sorted).risk_score > r.risk_score
         THEN <<Head(sorted)>> \o InsertBeforeEqual(Tail(sorted), r)
         ELSE <<r>> \o sorted

RECURSIVE SortByScoreLastFirst(_, _)
SortByScoreLastFirst(sorted, rows) ==
    IF rows = <<>> THEN sorted
    ELSE SortByScoreLastFirst(InsertBeforeEqual(sorted, Head(rows)), Tail(rows))

\* Mutant of NLargest: keep='last', among rows of equal score the later one first
NLargestKeepLast(rows, n) ==
    SubSeq(SortByScoreLastFirst(<<>>, rows), 1, Min(Len(rows), n))

\* rows to show
TopN == 15

\* df.nlargest(n, 'risk_score'): the n rows of highest score in descending
\* order, rows of equal score in their order in df
NLargest(rows, n) == Limit(SortByScore(<<>>, rows), n)

(***************************************************************************)
(* st.cache_data and the sessions.  The cache keeps the DataFrame of a     *)
(* query and hands every caller a copy of it; every browser session runs   *)
(* the script in a thread of its own, and runs it again on every           *)
(* interaction.                                                            *)
(***************************************************************************)
Sessions == {"s1", "s2"}

\* the object the cache holds
CacheFrame == "cache"

FrameIds == {CacheFrame} \cup Sessions

NoFrames == [f \in FrameIds |-> <<>>]

IdleSession ==
    [view |-> "none", pc |-> "idle", ref |-> CacheFrame, labels |-> <<>>, df |-> <<>>,
     raised |-> "none", out |-> <<>>]

NoSessions == [s \in Sessions |-> IdleSession]

\* calls of the function of a view on the rows of one query
MaxRuns == 2

(***************************************************************************)
(* What the parts of the state hold while the part of the program they     *)
(* belong to has not run.                                                  *)
(***************************************************************************)
NoBest == [labels |-> <<>>, inertia |-> 0 - 1]

NoLowest == [restart |-> 0, labels |-> <<>>, inertia |-> 0 - 1, tied |-> FALSE]

FitIdle ==
    /\ completed = <<>>
    /\ best = NoBest
    /\ lowest = NoLowest

NoRender == [page |-> "none", used |-> "none"]

MainIdle ==
    /\ conn = "none"
    /\ data_cache = {}
    /\ render = NoRender
    /\ renders = 0

NoTable == [schema |-> "none", columns |-> <<>>]

IngestIdle ==
    /\ schemas = {"public"}
    /\ sheet = <<>>
    /\ gtd_df = <<>>
    /\ gtd_incidents = NoTable

(***************************************************************************)
(* State machine.                                                          *)
(***************************************************************************)
Init ==
    /\ variant \in {"app", "pkg"}
    /\ pc = "start"
    /\ raised = "none"
    /\ flows = {}
    /\ network_data = <<>>
    /\ G = EmptyGraph
    /\ pos = <<>>
    /\ fig = NoFigure
    /\ clustering_data = <<>>
    /\ X = <<>>
    /\ scaler = Unfitted
    /\ Xs = <<>>
    /\ labels = <<>>
    /\ clustered_df = <<>>
    /\ forecasting = {}
    /\ forecast_data = <<>>
    /\ chart = NoChart
    /\ latest_data = <<>>
    /\ high_risk = <<>>
    /\ frames = NoFrames
    /\ sess = NoSessions
    /\ seeded = <<>>
    /\ runs = 0
    /\ FitIdle
    /\ MainIdle
    /\ IngestIdle

\* load_network_data (app) / load_network_edges (pkg)
load_network_data ==
    /\ pc = "start"
    /\ \E tbl \in FlowTables : \E rows \in NetworkQuery(tbl, variant) :
          /\ flows' = tbl
          /\ network_data' = rows
    /\ pc' = "network_loaded"
    /\ UNCHANGED <<variant, raised, G, pos, fig, clusterVars, runVars, riskVars>>
    /\ UNCHANGED <<fitVars, mainVars, ingestVars>>

create_network_graph ==
    /\ pc = "network_loaded"
    /\ variant = "app"
    /\ runs' = runs + 1
    /\ \E rows \in iterrows(network_data) : \E stream \in np_random_state(LayoutSeed) :
       LET g == BuildGraph(EmptyGraph, rows)
           layout == spring_layout(g, LayoutKApp, LayoutIterationsApp, stream)
       IN  /\ G' = g
           /\ IF layout.raised # "none"
              THEN /\ raised' = layout.raised
                   /\ UNCHANGED <<pos, fig>>
              ELSE /\ pos' = layout.pos
                   /\ IF ~AllPlaced(g, layout.pos)
                      THEN /\ raised' = "KeyError"
                           /\ UNCHANGED fig
                      ELSE IF ~EdgeWidthsValidApp(g)
                      THEN /\ raised' = "ValueError"
                           /\ UNCHANGED fig
                      ELSE /\ fig' = NetworkFigureApp(g, layout.pos)
                           /\ raised' = "none"
    /\ pc' = "network_done"
    /\ UNCHANGED <<variant, flows, network_data, clusterVars, frames, sess, seeded, riskVars>>
    /\ UNCHANGED <<fitVars, mainVars, ingestVars>>

network_graph ==
    /\ pc = "network_loaded"
    /\ variant = "pkg"
    /\ runs' = runs + 1
    /\ \E rows \in iterrows(network_data) : \E stream \in np_random_state(LayoutSeed) :
       LET g == BuildGraph(EmptyGraph, rows)
           layout == spring_layout(g, LayoutKPkg, LayoutIterationsPkg, stream)
       IN  /\ G' = g
           /\ IF Len(g.nodes) = 0
              THEN /\ fig' = EmptyFigurePkg
                   /\ UNCHANGED <<pos, raised>>
              ELSE IF layout.raised # "none"
              THEN /\ raised' = layout.raised
                   /\ UNCHANGED <<pos, fig>>
              ELSE /\ pos' = layout.pos
                   /\ IF AllPlaced(g, layout.pos)
                      THEN /\ fig' = NetworkFigurePkg(g, layout.pos)
                           /\ raised' = "none"
                      ELSE /\ raised' = "KeyError"
                           /\ UNCHANGED fig
    /\ pc' = "network_done"
    /\ UNCHANGED <<variant, flows, network_data, clusterVars, frames, sess, seeded, riskVars>>
    /\ UNCHANGED <<fitVars, mainVars, ingestVars>>

\* the script runs again: the network query is answered by the cache with a
\* copy of the rows it holds
load_network_cached ==
    /\ pc = "network_done"
    /\ raised = "none"
    /\ runs < MaxRuns
    /\ pc' = "network_loaded"
    /\ UNCHANGED <<variant, raised, netVars, clusterVars, riskVars, runVars>>
    /\ UNCHANGED <<fitVars, mainVars, ingestVars>>

\* load_clustering
load_clustering ==
    /\ pc = "start"
    /\ \E rows \in ClusteringQuery(variant) :
          /\ frames' = [frames EXCEPT ![CacheFrame] = rows]
          /\ clustering_data' = rows
    /\ pc' = "clustering_loaded"
    /\ UNCHANGED <<variant, raised, netVars, riskVars, X, scaler, Xs, labels, clustered_df,
                   sess, seeded, runs>>
    /\ UNCHANGED <<fitVars, mainVars, ingestVars>>

\* the script runs again: load_clustering is answered by the cache with a
\* copy of the rows it holds
load_clustering_cached ==
    /\ pc = "clustering_done"
    /\ raised = "none"
    /\ runs < MaxRuns
    /\ clustering_data' = frames[CacheFrame]
    /\ pc' = "clustering_loaded"
    /\ UNCHANGED <<variant, raised, netVars, riskVars, X, scaler, Xs, labels, clustered_df,
                   runVars>>
    /\ UNCHANGED <<fitVars, mainVars, ingestVars>>

\* the steps both clustering functions share: the feature matrix, the
\* scaler and K-means.  inplace: the labels are written to the caller's
\* table (app) or to a copy of it (pkg)
Clustering(inplace) ==
    LET m == FeatureMatrix(clustering_data)
    IN  /\ X' = m
        /\ runs' = runs + 1
        /\ IF ~Convertible(m) \/ Len(m) = 0
           THEN \* conversion to float, or StandardScaler on no sample
                /\ raised' = "ValueError"
                /\ UNCHANGED <<clustering_data, scaler, Xs, labels, clustered_df, seeded>>
           ELSE LET sc == ScalerFit(AsFloat(m))
                    scaled == ScalerTransform(sc, AsFloat(m))
                IN  /\ scaler' = sc
                    /\ Xs' = scaled
                    /\ IF Len(scaled) < NClusters
                       THEN \* KMeans: n_samples should be >= n_clusters
                            /\ raised' = "ValueError"
                            /\ UNCHANGED <<clustering_data, labels, clustered_df, seeded>>
                       ELSE \E init \in SeededInits(seeded, scaled) :
                              LET lab == KMeansLabels(scaled, init)
                              IN  /\ labels' = lab
                                  /\ seeded' = Remember(seeded, scaled, init)
                                  /\ IF Len(lab) # Len(clustering_data)
                                     THEN \* df['cluster'] = ...: length mismatch
                                          /\ raised' = "ValueError"
                                          /\ UNCHANGED <<clustering_data, clustered_df>>
                                     ELSE /\ clustered_df' = WithCluster(clustering_data, lab)
                                          /\ clustering_data' =
                                                IF inplace
                                                THEN WithCluster(clustering_data, lab)
                                                ELSE clustering_data
                                          /\ raised' = "none"

create_clustering_visualization ==
    /\ pc = "clustering_loaded"
    /\ variant = "app"
    /\ Clustering(TRUE)
    /\ pc' = "clustering_done"
    /\ UNCHANGED <<variant, netVars, riskVars, frames, sess>>
    /\ UNCHANGED <<fitVars, mainVars, ingestVars>>

clustering_3d ==
    /\ pc = "clustering_loaded"
    /\ variant = "pkg"
    /\ Clustering(FALSE)
    /\ pc' = "clustering_done"
    /\ UNCHANGED <<variant, netVars, riskVars, frames, sess>>
    /\ UNCHANGED <<fitVars, mainVars, ingestVars>>

\* load_forecasting
load_forecasting ==
    /\ pc = "start"
    /\ \E tbl \in YearlyTables : \E rows \in ForecastQuery(tbl, variant) :
          /\ forecasting' = tbl
          /\ forecast_data' = rows
    /\ pc' = "forecast_loaded"
    /\ UNCHANGED <<variant, raised, netVars, clusterVars, runVars, chart, latest_data, high_risk>>
    /\ UNCHANGED <<fitVars, mainVars, ingestVars>>

\* app, Predictive Analytics page: the chart comes first
create_prediction_chart ==
    /\ pc = "forecast_loaded"
    /\ variant = "app"
    /\ runs' = runs + 1
    /\ LET res == PredictionChart(forecast_data)
       IN  /\ raised' = res.raised
           /\ chart' = res.chart
           /\ pc' = IF res.raised = "none" THEN "chart_done" ELSE "predict_done"
    /\ UNCHANGED <<variant, netVars, clusterVars, frames, sess, seeded, forecasting, forecast_data,
                   latest_data, high_risk>>
    /\ UNCHANGED <<fitVars, mainVars, ingestVars>>

\* app, Predictive Analytics page: risk scores of the latest year and the top rows
main_risk_scoring ==
    /\ pc = "chart_done"
    /\ variant = "app"
    /\ LET scored == LatestScored(forecast_data, MaxOf(YearsOf(forecast_data)))
       IN  /\ latest_data' = scored
           /\ high_risk' = NLargest(scored, TopN)
    /\ pc' = "predict_done"
    /\ UNCHANGED <<variant, raised, netVars, clusterVars, runVars, forecasting, forecast_data, chart>>
    /\ UNCHANGED <<fitVars, mainVars, ingestVars>>

\* pkg, Predictive Analytics tab: int() of the maximum of no year raises ValueError
tab_predict ==
    /\ pc = "forecast_loaded"
    /\ variant = "pkg"
    /\ runs' = runs + 1
    /\ IF forecast_data = <<>>
       THEN /\ raised' = "ValueError"
            /\ UNCHANGED <<latest_data, high_risk>>
       ELSE LET scored == LatestScored(forecast_data, MaxOf(YearsOf(forecast_data)))
            IN  /\ latest_data' = scored
                /\ high_risk' = NLargest(scored, TopN)
                /\ raised' = "none"
    /\ pc' = "predict_done"
    /\ UNCHANGED <<variant, netVars, clusterVars, frames, sess, seeded, forecasting, forecast_data,
                   chart>>
    /\ UNCHANGED <<fitVars, mainVars, ingestVars>>

(***************************************************************************)
(* Graph construction as a function of its argument: create_network_graph  *)
(* and network_graph called on any edge rows, rows with a weight below 0   *)
(* and rows the query would have dropped included.                         *)
(***************************************************************************)
AnyWeights == {0 - 3, 7}

AnyFlowRow == [source_country : Countries, target_country : Countries, weight : AnyWeights,
               num_shared_groups : Groups, spillover_intensity_score : Intensities]

InitBuilder ==
    /\ variant \in {"app", "pkg"}
    /\ pc = "network_loaded"
    /\ raised = "none"
    /\ network_data \in SeqsUpTo(AnyFlowRow, MaxFlows)
    /\ flows = Range(network_data)
    /\ G = EmptyGraph
    /\ pos = <<>>
    /\ fig = NoFigure
    /\ clustering_data = <<>>
    /\ X = <<>>
    /\ scaler = Unfitted
    /\ Xs = <<>>
    /\ labels = <<>>
    /\ clustered_df = <<>>
    /\ forecasting = {}
    /\ forecast_data = <<>>
    /\ chart = NoChart
    /\ latest_data = <<>>
    /\ high_risk = <<>>
    /\ frames = NoFrames
    /\ sess = NoSessions
    /\ seeded = <<>>
    /\ runs = 0
    /\ FitIdle
    /\ MainIdle
    /\ IngestIdle

NextBuilder ==
    \/ create_network_graph
    \/ network_graph

SpecBuilder == InitBuilder /\ [][NextBuilder]_vars

(***************************************************************************)
(* The predictive view on a record set larger than the ranking shows:      *)
(* RankRows rows of the latest year, one per country, followed by a row of *)
(* the year before (which the chart of the app needs).                     *)
(***************************************************************************)
RankRows == TopN + 1

RankCountries ==
    <<"c01", "c02", "c03", "c04", "c05", "c06", "c07", "c08", "c09", "c10",
      "c11", "c12", "c13", "c14", "c15", "c16", "c17", "c18">>

RankInputs == {<<0, 0, 0>>, <<1, 1, 1>>}

RankedRecord(i, y, in) ==
    [country |-> RankCountries[i], year |-> y, incidents_momentum |-> in[1],
     incidents_volatility |-> in[2], prior_year_spike |-> in[3], incidents_lag1 |-> 3]

\* results of load_forecasting, ordered by year DESC, country
RankedResults ==
    {AsTuple([i \in 1..RankRows |-> RankedRecord(i, 2023, in[i])])
        \o <<RankedRecord(1, 2022, <<0, 0, 0>>)>> : in \in [1..RankRows -> RankInputs]}

InitRank ==
    /\ variant \in {"app", "pkg"}
    /\ pc = "forecast_loaded"
    /\ raised = "none"
    /\ flows = {}
    /\ network_data = <<>>
    /\ G = EmptyGraph
    /\ pos = <<>>
    /\ fig = NoFigure
    /\ clustering_data = <<>>
    /\ X = <<>>
    /\ scaler = Unfitted
    /\ Xs = <<>>
    /\ labels = <<>>
    /\ clustered_df = <<>>
    /\ forecast_data \in RankedResults
    /\ forecasting = Range(forecast_data)
    /\ chart = NoChart
    /\ latest_data = <<>>
    /\ high_risk = <<>>
    /\ frames = NoFrames
    /\ sess = NoSessions
    /\ seeded = <<>>
    /\ runs = 0
    /\ FitIdle
    /\ MainIdle
    /\ IngestIdle

NextRank ==
    \/ create_prediction_chart
    \/ main_risk_scoring
    \/ tab_predict

SpecRank == InitRank /\ [][NextRank]_vars

(***************************************************************************)
(* The clustering view run again and again, as on every interaction with   *)
(* the page: the rows come from the cache each time.  The cache holds one  *)
(* row more than there are clusters, so that the generator has a choice.   *)
(***************************************************************************)
RerunRows == NClusters + 1

RerunResults ==
    {t \in [1..RerunRows -> FeatureRows] :
        /\ \A i \in 1..(RerunRows - 1) : t[i].total_attacks >= t[i + 1].total_attacks
        /\ Cardinality(Range(t)) >= NClusters}

InitRerun ==
    /\ variant \in {"app", "pkg"}
    /\ pc = "clustering_loaded"
    /\ raised = "none"
    /\ flows = {}
    /\ network_data = <<>>
    /\ G = EmptyGraph
    /\ pos = <<>>
    /\ fig = NoFigure
    /\ clustering_data \in RerunResults
    /\ X = <<>>
    /\ scaler = Unfitted
    /\ Xs = <<>>
    /\ labels = <<>>
    /\ clustered_df = <<>>
    /\ forecasting = {}
    /\ forecast_data = <<>>
    /\ chart = NoChart
    /\ latest_data = <<>>
    /\ high_risk = <<>>
    /\ frames = [NoFrames EXCEPT ![CacheFrame] = clustering_data]
    /\ sess = NoSessions
    /\ seeded = <<>>
    /\ runs = 0
    /\ FitIdle
    /\ MainIdle
    /\ IngestIdle

NextRerun ==
    \/ load_clustering_cached
    \/ create_clustering_visualization
    \/ clustering_3d

SpecRerun == InitRerun /\ [][NextRerun]_vars

(***************************************************************************)
(* The network view run again and again on the rows the cache holds: rows  *)
(* of few pairs, so that a pair comes in several rows.                     *)
(***************************************************************************)
RelayoutCountries == {"A", "B"}
RelayoutWeights == {7, 10}

RelayoutRow == [source_country : RelayoutCountries, target_country : RelayoutCountries,
                weight : RelayoutWeights, num_shared_groups : Groups,
                spillover_intensity_score : {2}]

RelayoutTables == {Range(s) : s \in SeqsUpTo(RelayoutRow, MaxFlows)}

InitRelayout ==
    /\ variant \in {"app", "pkg"}
    /\ pc = "network_loaded"
    /\ raised = "none"
    /\ flows \in RelayoutTables
    /\ network_data \in NetworkQuery(flows, variant)
    /\ G = EmptyGraph
    /\ pos = <<>>
    /\ fig = NoFigure
    /\ clustering_data = <<>>
    /\ X = <<>>
    /\ scaler = Unfitted
    /\ Xs = <<>>
    /\ labels = <<>>
    /\ clustered_df = <<>>
    /\ forecasting = {}
    /\ forecast_data = <<>>
    /\ chart = NoChart
    /\ latest_data = <<>>
    /\ high_risk = <<>>
    /\ frames = NoFrames
    /\ sess = NoSessions
    /\ seeded = <<>>
    /\ runs = 0
    /\ FitIdle
    /\ MainIdle
    /\ IngestIdle

NextRelayout ==
    \/ load_network_cached
    \/ create_network_graph
    \/ network_graph

SpecRelayout == InitRelayout /\ [][NextRelayout]_vars

(***************************************************************************)
(* Two invocations side by side, on the same input tables.  Each runs the  *)
(* pipeline of one view; it is called on the table itself or, as the       *)
(* dashboards do through st.cache_data, on a copy of it.  The steps of the *)
(* two invocations interleave; the clustering pipeline is cut where it     *)
(* reads or writes a DataFrame.  df['cluster'] = ... is two steps: pandas  *)
(* looks the column up, then replaces it or, when it was not there,        *)
(* inserts it; two insertions leave the DataFrame with the column twice,   *)
(* on which the selection of a cluster's rows raises.                      *)
(***************************************************************************)
Views == {"network", "clustering", "predict"}

\* the DataFrame objects an invocation can be called on: the table itself or a copy
Handed(s) == {CacheFrame, s}

\* the DataFrame has the column
HasColumn(df, col) == df # <<>> /\ col \in DOMAIN df[1]

\* insertion of the column cluster into a DataFrame that has it already
InsertClusterAgain(df, lab) ==
    AsTuple([i \in DOMAIN df |->
        [primary_group |-> df[i].primary_group, total_attacks |-> df[i].total_attacks,
         features |-> df[i].features, cluster |-> df[i].cluster, cluster_again |-> lab[i]]])

\* what df[df['cluster'] == c] raises on a DataFrame with two columns cluster
DuplicateColumnErrors == {"ValueError", "AttributeError"}

\* create_network_graph / network_graph as a function of the rows
NetworkView(rows, v) ==
    LET g == BuildGraph(EmptyGraph, rows)
        layout == IF v = "app"
                  THEN spring_layout(g, LayoutKApp, LayoutIterationsApp, LayoutSeed)
                  ELSE spring_layout(g, LayoutKPkg, LayoutIterationsPkg, LayoutSeed)
    IN  IF v = "pkg" /\ Len(g.nodes) = 0 THEN [raised |-> "none", fig |-> EmptyFigurePkg]
        ELSE IF layout.raised # "none" THEN [raised |-> layout.raised, fig |-> NoFigure]
        ELSE IF ~AllPlaced(g, layout.pos) THEN [raised |-> "KeyError", fig |-> NoFigure]
        ELSE IF v = "app" /\ ~EdgeWidthsValidApp(g)
             THEN [raised |-> "ValueError", fig |-> NoFigure]
        ELSE [raised |-> "none",
              fig |-> IF v = "app" THEN NetworkFigureApp(g, layout.pos)
                      ELSE NetworkFigurePkg(g, layout.pos)]

\* the predictive view as a function of the rows
PredictView(rows, v) ==
    IF v = "app" /\ PredictionChart(rows).raised # "none"
    THEN [raised |-> PredictionChart(rows).raised, high_risk |-> <<>>]
    ELSE IF v = "pkg" /\ rows = <<>> THEN [raised |-> "ValueError", high_risk |-> <<>>]
    ELSE [raised |-> "none",
          high_risk |-> NLargest(LatestScored(rows, MaxOf(YearsOf(rows))), TopN)]

\* the traces of the clustering figure: per cluster, the groups in it
ClusterTraces(df) ==
    AsTuple([c \in 1..NClusters |->
        LET part == SelectSeq(df, LAMBDA row : row.cluster = c - 1)
        IN  AsTuple([i \in DOMAIN part |-> part[i].primary_group])])

ClusteringFailed == [raised |-> "ValueError", df |-> <<>>, fig |-> <<>>]

\* the standardized matrix of the feature rows
Standardized(rows) ==
    ScalerTransform(ScalerFit(AsFloat(FeatureMatrix(rows))), AsFloat(FeatureMatrix(rows)))

\* the rows on which the scaler or KMeans raises
Unclusterable(rows) ==
    \/ ~Convertible(FeatureMatrix(rows))
    \/ Len(rows) < NClusters

\* the clustering view as a function of the rows and of the generator's picks
ClusteringView(rows, memo) ==
    IF Unclusterable(rows) THEN ClusteringFailed
    ELSE LET df == WithCluster(rows, KMeansLabels(Standardized(rows), memo[Standardized(rows)]))
         IN  [raised |-> "none", df |-> df, fig |-> ClusterTraces(df)]

\* the rows the sessions work on
ParFeatureResults(v) ==
    {t \in ClusteringQuery(v) : Len(t) = NClusters /\ Cardinality(Range(t)) = NClusters}

ParNetworkResults ==
    {<<>>,
     <<[source_country |-> "A", target_country |-> "B", weight |-> 10,
        num_shared_groups |-> 2, spillover_intensity_score |-> 2]>>}

ParYearlyResults ==
    {<<>>,
     <<[country |-> "X", year |-> 2023, incidents_momentum |-> 1, incidents_volatility |-> 1,
        prior_year_spike |-> 1, incidents_lag1 |-> 3],
       [country |-> "X", year |-> 2022, incidents_momentum |-> 0, incidents_volatility |-> 0,
        prior_year_spike |-> 0, incidents_lag1 |-> 3]>>}

InitPar ==
    /\ variant \in {"app", "pkg"}
    /\ pc = "sessions"
    /\ raised = "none"
    /\ flows = {}
    /\ network_data \in ParNetworkResults
    /\ G = EmptyGraph
    /\ pos = <<>>
    /\ fig = NoFigure
    /\ clustering_data = <<>>
    /\ X = <<>>
    /\ scaler = Unfitted
    /\ Xs = <<>>
    /\ labels = <<>>
    /\ clustered_df = <<>>
    /\ forecasting = {}
    /\ forecast_data \in ParYearlyResults
    /\ chart = NoChart
    /\ latest_data = <<>>
    /\ high_risk = <<>>
    /\ \E rows \in ParFeatureResults(variant) : frames = [NoFrames EXCEPT ![CacheFrame] = rows]
    /\ sess = NoSessions
    /\ seeded = <<>>
    /\ runs = 0
    /\ FitIdle
    /\ MainIdle
    /\ IngestIdle

\* what a step of a session leaves alone
SessionFrame ==
    UNCHANGED <<variant, pc, raised, netVars, clusterVars, riskVars, runs, fitVars, mainVars,
                ingestVars>>

\* the invocation is called on its rows
sess_load(s) ==
    /\ sess[s].pc = "idle"
    /\ \E view \in Views :
          IF view = "clustering"
          THEN \E ref \in Handed(s) :
                  /\ frames' = [frames EXCEPT ![ref] = frames[CacheFrame]]
                  /\ sess' = [sess EXCEPT ![s] = [@ EXCEPT !.view = view, !.pc = "loaded",
                                                     !.ref = ref]]
          ELSE /\ sess' = [sess EXCEPT ![s] = [@ EXCEPT !.view = view, !.pc = "loaded"]]
               /\ UNCHANGED frames
    /\ UNCHANGED seeded
    /\ SessionFrame

sess_network(s) ==
    /\ sess[s].pc = "loaded"
    /\ sess[s].view = "network"
    /\ LET res == NetworkView(network_data, variant)
       IN  sess' = [sess EXCEPT ![s] = [@ EXCEPT !.pc = "done", !.raised = res.raised,
                                           !.out = res]]
    /\ UNCHANGED <<frames, seeded>>
    /\ SessionFrame

sess_predict(s) ==
    /\ sess[s].pc = "loaded"
    /\ sess[s].view = "predict"
    /\ LET res == PredictView(forecast_data, variant)
       IN  sess' = [sess EXCEPT ![s] = [@ EXCEPT !.pc = "done", !.raised = res.raised,
                                           !.out = res]]
    /\ UNCHANGED <<frames, seeded>>
    /\ SessionFrame

\* X = df[features].fillna(0), the scaler and KMeans.fit_predict
sess_fit(s) ==
    /\ sess[s].pc = "loaded"
    /\ sess[s].view = "clustering"
    /\ LET df == frames[sess[s].ref]
       IN  IF Unclusterable(df)
           THEN /\ sess' = [sess EXCEPT ![s] = [@ EXCEPT !.pc = "done",
                                                   !.raised = "ValueError",
                                                   !.out = ClusteringFailed]]
                /\ UNCHANGED seeded
           ELSE \E init \in SeededInits(seeded, Standardized(df)) :
                   /\ sess' = [sess EXCEPT ![s] =
                                  [@ EXCEPT !.pc = "fitted",
                                            !.labels = KMeansLabels(Standardized(df), init)]]
                   /\ seeded' = Remember(seeded, Standardized(df), init)
    /\ UNCHANGED frames
    /\ SessionFrame

\* df['cluster'] = labels, first step (app): is the column there
sess_lookup(s) ==
    /\ sess[s].pc = "fitted"
    /\ variant = "app"
    /\ sess' = [sess EXCEPT ![s] =
                   [@ EXCEPT !.pc = "assigning",
                             !.df = HasColumn(frames[sess[s].ref], "cluster")]]
    /\ UNCHANGED <<frames, seeded>>
    /\ SessionFrame

\* df['cluster'] = labels, the write: on the DataFrame the invocation was
\* called on (app), or on a copy of it taken now (pkg)
sess_assign(s) ==
    /\ IF variant = "app"
       THEN /\ sess[s].pc = "assigning"
            /\ frames' = [frames EXCEPT ![sess[s].ref] =
                              IF HasColumn(@, "cluster") /\ ~sess[s].df
                              THEN InsertClusterAgain(@, sess[s].labels)
                              ELSE WithCluster(@, sess[s].labels)]
            /\ sess' = [sess EXCEPT ![s] = [@ EXCEPT !.pc = "assigned", !.df = <<>>]]
       ELSE /\ sess[s].pc = "fitted"
            /\ sess' = [sess EXCEPT ![s] =
                          [@ EXCEPT !.pc = "assigned",
                                    !.df = WithCluster(frames[sess[s].ref], sess[s].labels)]]
            /\ UNCHANGED frames
    /\ UNCHANGED seeded
    /\ SessionFrame

\* the traces are drawn from the labelled DataFrame, which is returned with them
sess_plot(s) ==
    /\ sess[s].pc = "assigned"
    /\ LET df == IF variant = "app" THEN frames[sess[s].ref] ELSE sess[s].df
       IN  IF HasColumn(df, "cluster_again")
           THEN \E err \in DuplicateColumnErrors :
                   sess' = [sess EXCEPT ![s] =
                               [@ EXCEPT !.pc = "done", !.raised = err,
                                         !.out = [raised |-> err, df |-> <<>>, fig |-> <<>>]]]
           ELSE sess' = [sess EXCEPT ![s] =
                            [@ EXCEPT !.pc = "done",
                                      !.out = [raised |-> "none", df |-> df,
                                               fig |-> ClusterTraces(df)]]]
    /\ UNCHANGED <<frames, seeded>>
    /\ SessionFrame

NextPar ==
    \/ \E s \in Sessions : sess_load(s)
    \/ \E s \in Sessions : sess_network(s)
    \/ \E s \in Sessions : sess_predict(s)
    \/ \E s \in Sessions : sess_fit(s)
    \/ \E s \in Sessions : sess_lookup(s)
    \/ \E s \in Sessions : sess_assign(s)
    \/ \E s \in Sessions : sess_plot(s)

SpecPar == InitPar /\ [][NextPar]_vars

(***************************************************************************)
(* The two dashboards on the same rows: when one has run a view, the other *)
(* is given the rows the first was given and runs its function for the     *)
(* view; what the first computed stays in place to compare with.           *)
(***************************************************************************)
BothYears == {2022, 2023}

BothYearlyRow ==
    {[country |-> c, year |-> y, incidents_momentum |-> in[1],
      incidents_volatility |-> in[2], prior_year_spike |-> in[3], incidents_lag1 |-> 3] :
        c \in YearlyCountries, y \in BothYears, in \in {<<0, 0, 0>>, <<1, 1, 1>>}}

BothYearlyTables == {Range(s) : s \in SeqsUpTo(BothYearlyRow, MaxYearly)}

OtherDashboard(v) == IF v = "app" THEN "pkg" ELSE "app"

InitBoth ==
    /\ variant \in {"app", "pkg"}
    /\ pc \in {"network_loaded", "clustering_loaded", "forecast_loaded"}
    /\ raised = "none"
    /\ flows \in RelayoutTables
    /\ network_data \in NetworkQuery(flows, variant)
    /\ pc # "network_loaded" => flows = {}
    /\ G = EmptyGraph
    /\ pos = <<>>
    /\ fig = NoFigure
    /\ clustering_data \in ParFeatureResults(variant) \cup {<<>>}
    /\ (pc = "clustering_loaded") <=> (clustering_data # <<>>)
    /\ X = <<>>
    /\ scaler = Unfitted
    /\ Xs = <<>>
    /\ labels = <<>>
    /\ clustered_df = <<>>
    /\ forecasting \in BothYearlyTables
    /\ forecast_data \in OrderByYearCountry(forecasting)
    /\ pc # "forecast_loaded" => forecasting = {}
    /\ chart = NoChart
    /\ latest_data = <<>>
    /\ high_risk = <<>>
    /\ frames = [NoFrames EXCEPT ![CacheFrame] = clustering_data]
    /\ sess = NoSessions
    /\ seeded = <<>>
    /\ runs = 0
    /\ FitIdle
    /\ MainIdle
    /\ IngestIdle

\* the other dashboard is given the rows of the view
other_dashboard ==
    /\ pc \in {"network_done", "clustering_done", "predict_done"}
    /\ raised = "none"
    /\ runs < MaxRuns
    /\ variant' = OtherDashboard(variant)
    /\ pc' = IF pc = "network_done" THEN "network_loaded"
             ELSE IF pc = "clustering_done" THEN "clustering_loaded"
             ELSE "forecast_loaded"
    /\ clustering_data' = frames[CacheFrame]
    /\ UNCHANGED <<raised, netVars, riskVars, X, scaler, Xs, labels, clustered_df, runVars>>
    /\ UNCHANGED <<fitVars, mainVars, ingestVars>>

NextBoth ==
    \/ other_dashboard
    \/ create_network_graph
    \/ network_graph
    \/ create_clustering_visualization
    \/ clustering_3d
    \/ create_prediction_chart
    \/ main_risk_scoring
    \/ tab_predict

SpecBoth == InitBoth /\ [][NextBoth]_vars

(***************************************************************************)
(* KMeans.fit with n_init restarts.  Every restart runs Lloyd's iteration  *)
(* from initial centres of its own and yields labels and an inertia, the   *)
(* sum of the squared distances of the samples to the centre of their      *)
(* label.  fit runs the restarts one after another in a loop and keeps a   *)
(* result when it is the first, or when its inertia is lower than the kept *)
(* one and it is not the same clustering under another numbering.          *)
(***************************************************************************)
NInit == 10
MaxRestarts == 3

\* the restarts the model runs
Restarts == 1..Min(NInit, MaxRestarts)

\* Lloyd's iteration as in Lloyd, with the centres it ends with
RECURSIVE LloydFit(_, _, _)
LloydFit(m, centres, iter) ==
    LET assign == Assign(m, centres)
        moved == AsTuple([c \in DOMAIN centres |-> MoveCentre(m, assign, centres, c)])
    IN  IF moved = centres THEN [assign |-> assign, centres |-> moved]
        ELSE IF iter >= MaxLloydIterations
        THEN [assign |-> Assign(m, moved), centres |-> moved]
        ELSE LloydFit(m, moved, iter + 1)

\* sum of the squared distances of the samples to the centre of their label
Inertia(m, centres, assign) ==
    SumSeq(AsTuple([i \in DOMAIN m |-> SqDist(m[i], centres[assign[i]])]))

\* one restart from the initial centres init: the labels, counted from 0,
\* and the inertia
KMeansSingle(m, init) ==
    LET fit == LloydFit(m, AsTuple([c \in 1..NClusters |-> m[init[c]]]), 1)
    IN  [labels |-> AsTuple([i \in DOMAIN m |-> fit.assign[i] - 1]),
         inertia |-> Inertia(m, fit.centres, fit.assign)]

\* the initial centres a restart may draw: n_clusters samples, in sample
\* order or in the opposite order
RestartInits(m) == InitChoices(m) \cup {Reverse(c) : c \in InitChoices(m)}

\* _is_same_clustering: the same partition of the samples
SameClustering(a, b) ==
    \A i \in DOMAIN a : \A j \in DOMAIN a : (a[i] = a[j]) <=> (b[i] = b[j])

\* whether fit replaces the kept result by the result of a restart
Keeps(res, kept) ==
    \/ kept = NoBest
    \/ res.inertia < kept.inertia /\ ~SameClustering(res.labels, kept.labels)

\* Mutant of NextRestart: the restarts run on workers and complete in any
\* order, the results taken as they arrive
AnyPendingRestart(done) == Restarts \ DOMAIN done

\* for i in range(n_init): the restart that completes next
NextRestart(done) == {Len(done) + 1} \cap Restarts

\* done, with restart i and its inertia
Completed(done, i, inertia) ==
    [r \in (DOMAIN done) \cup {i} |-> IF r = i THEN inertia ELSE done[r]]

\* the earliest restart among those of lowest inertia, after restart i
LowestWith(low, i, res) ==
    IF low = NoLowest \/ res.inertia < low.inertia
    THEN [restart |-> i, labels |-> res.labels, inertia |-> res.inertia, tied |-> FALSE]
    ELSE IF res.inertia > low.inertia THEN low
    ELSE IF i < low.restart
    THEN [restart |-> i, labels |-> res.labels, inertia |-> res.inertia,
          tied |-> low.tied \/ res.labels # low.labels]
    ELSE [low EXCEPT !.tied = low.tied \/ res.labels # low.labels]

\* one restart completes: kmeans_single, then the comparison with the kept
\* result
kmeans_restart ==
    /\ pc = "kmeans_fit"
    /\ \E i \in NextRestart(completed) : \E init \in RestartInits(Xs) :
          LET res == KMeansSingle(Xs, init)
          IN  /\ completed' = Completed(completed, i, res.inertia)
              /\ best' = IF Keeps(res, best) THEN res ELSE best
              /\ lowest' = LowestWith(lowest, i, res)
    /\ UNCHANGED <<variant, pc, raised, netVars, clusterVars, riskVars, runVars, mainVars,
                   ingestVars>>

\* fit_predict returns the labels of the kept result
kmeans_keep ==
    /\ pc = "kmeans_fit"
    /\ DOMAIN completed = Restarts
    /\ labels' = best.labels
    /\ pc' = "kmeans_done"
    /\ UNCHANGED <<variant, raised, netVars, clustering_data, X, scaler, Xs, clustered_df,
                   riskVars, runVars, fitVars, mainVars, ingestVars>>

\* the order of the rows K-means is fitted on: descending attacks, rows of
\* equal attacks by descending attack volume
RestartOrder(a, b) ==
    \/ a.total_attacks > b.total_attacks
    \/ /\ a.total_attacks = b.total_attacks
       /\ a.features["normalized_attack_volume"].v >= b.features["normalized_attack_volume"].v

\* the rows K-means is fitted on: one row more than there are clusters, all
\* of them convertible; as many groups as clusters, or rows without a
\* missing value only, which either variant's feature matrix keeps
RestartResults ==
    {t \in [1..RerunRows -> {r \in FeatureRows : Convertible(FeatureMatrix(<<r>>))}] :
        /\ \A i \in 1..(RerunRows - 1) : RestartOrder(t[i], t[i + 1])
        /\ \/ Cardinality(Range(t)) >= NClusters
           \/ Len(FeatureMatrixDropNa(t)) = Len(t)}

InitRestarts ==
    /\ variant \in {"app", "pkg"}
    /\ pc = "kmeans_fit"
    /\ raised = "none"
    /\ flows = {}
    /\ network_data = <<>>
    /\ G = EmptyGraph
    /\ pos = <<>>
    /\ fig = NoFigure
    /\ clustering_data \in RestartResults
    /\ X = FeatureMatrix(clustering_data)
    /\ Len(X) >= NClusters
    /\ scaler = ScalerFit(AsFloat(X))
    /\ Xs = ScalerTransform(scaler, AsFloat(X))
    /\ labels = <<>>
    /\ clustered_df = <<>>
    /\ forecasting = {}
    /\ forecast_data = <<>>
    /\ chart = NoChart
    /\ latest_data = <<>>
    /\ high_risk = <<>>
    /\ frames = NoFrames
    /\ sess = NoSessions
    /\ seeded = <<>>
    /\ runs = 0
    /\ FitIdle
    /\ MainIdle
    /\ IngestIdle

NextRestarts ==
    \/ kmeans_restart
    \/ kmeans_keep

SpecRestarts == InitRestarts /\ [][NextRestarts]_vars

(***************************************************************************)
(* The ingestion asset gtd_raw_data and the script setup_database.  A      *)
(* sheet is a sequence of columns, a column a name and its cells; a cell   *)
(* is a number, an empty cell or a text.                                   *)
(***************************************************************************)
MaxSheetRows == 2

\* what the dashboards' state holds while the ingestion runs
ViewIdle ==
    /\ variant = "app"
    /\ flows = {}
    /\ network_data = <<>>
    /\ G = EmptyGraph
    /\ pos = <<>>
    /\ fig = NoFigure
    /\ clustering_data = <<>>
    /\ X = <<>>
    /\ scaler = Unfitted
    /\ Xs = <<>>
    /\ labels = <<>>
    /\ clustered_df = <<>>
    /\ forecasting = {}
    /\ forecast_data = <<>>
    /\ chart = NoChart
    /\ latest_data = <<>>
    /\ high_risk = <<>>
    /\ frames = NoFrames
    /\ sess = NoSessions
    /\ seeded = <<>>
    /\ runs = 0

viewVars == <<variant, netVars, clusterVars, riskVars, runVars>>

\* schemas = ['raw_data', 'staging', 'intermediate', 'marts']
SetupSchemas == {"raw_data", "staging", "intermediate", "marts"}

\* to_sql(name='gtd_incidents', schema='raw', ...)
TargetSchema == "raw"

\* Mutant of MissingCodes: the codes the docstring names
DocstringCodes == {0 - 9, 0 - 99}

\* replace([-9, -99, -999], pd.NA)
MissingCodes == {0 - 9, 0 - 99, 0 - 999}

\* the cells of a column of numbers, and of a column that may hold text
NumberCells == {Num(0 - 999), Num(0 - 99), Num(0 - 9), Num(5), NA}
ObjectCells == {Text, Num(0 - 9), Num(5)}

Sheets ==
    UNION {{<<[name |-> "nkill", cells |-> a], [name |-> "Country Txt", cells |-> b]>> :
                a \in [1..n -> NumberCells], b \in [1..n -> ObjectCells]} :
           n \in 1..MaxSheetRows}

\* str.lower().str.replace(' ', '_') on the column names of the sheets
LowerUnderscore(name) == IF name = "Country Txt" THEN "country_txt" ELSE name

\* select_dtypes(include=['number']): a column of numbers and empty cells
IsNumberDtype(cells) == \A i \in DOMAIN cells : cells[i].kind \in {"num", "na"}

ReplaceCodes(cells) ==
    AsTuple([i \in DOMAIN cells |->
        IF cells[i].kind = "num" /\ cells[i].v \in MissingCodes THEN NA ELSE cells[i]])

\* df[numeric_cols] = df[numeric_cols].replace([-9, -99, -999], pd.NA)
ReplaceInNumericCols(d) ==
    AsTuple([c \in DOMAIN d |->
        IF IsNumberDtype(d[c].cells)
        THEN [name |-> d[c].name, cells |-> ReplaceCodes(d[c].cells)]
        ELSE d[c]])

InitIngest ==
    /\ ViewIdle
    /\ pc = "ingest_start"
    /\ raised = "none"
    /\ FitIdle
    /\ MainIdle
    /\ schemas \in {{"public"}, {"public", TargetSchema}}
    /\ sheet \in Sheets
    /\ gtd_df = <<>>
    /\ gtd_incidents = NoTable

\* CREATE SCHEMA IF NOT EXISTS for every schema of the list
setup_database ==
    /\ pc = "ingest_start"
    /\ schemas' = schemas \cup SetupSchemas
    /\ UNCHANGED <<pc, raised, viewVars, fitVars, mainVars, sheet, gtd_df, gtd_incidents>>

\* df = pd.read_excel(gtd_file_path, sheet_name=0)
read_excel ==
    /\ pc = "ingest_start"
    /\ gtd_df' = sheet
    /\ pc' = "excel_read"
    /\ UNCHANGED <<raised, viewVars, fitVars, mainVars, schemas, sheet, gtd_incidents>>

\* df.columns = df.columns.str.lower().str.replace(' ', '_')
columns_lower ==
    /\ pc = "excel_read"
    /\ gtd_df' = AsTuple([c \in DOMAIN gtd_df |->
                    [name |-> LowerUnderscore(gtd_df[c].name), cells |-> gtd_df[c].cells]])
    /\ pc' = "columns_renamed"
    /\ UNCHANGED <<raised, viewVars, fitVars, mainVars, schemas, sheet, gtd_incidents>>

\* the cleaning step
replace_missing_codes ==
    /\ pc = "columns_renamed"
    /\ gtd_df' = ReplaceInNumericCols(gtd_df)
    /\ pc' = "cleaned"
    /\ UNCHANGED <<raised, viewVars, fitVars, mainVars, schemas, sheet, gtd_incidents>>

\* df.to_sql: creates the table in the target schema, which has to exist
to_sql ==
    /\ pc = "cleaned"
    /\ IF TargetSchema \in schemas
       THEN /\ gtd_incidents' = [schema |-> TargetSchema, columns |-> gtd_df]
            /\ pc' = "ingested"
            /\ UNCHANGED raised
       ELSE /\ raised' = "ProgrammingError"
            /\ pc' = "ingest_failed"
            /\ UNCHANGED gtd_incidents
    /\ UNCHANGED <<viewVars, fitVars, mainVars, schemas, sheet, gtd_df>>

NextIngest ==
    \/ setup_database
    \/ read_excel
    \/ columns_lower
    \/ replace_missing_codes
    \/ to_sql

SpecIngest == InitIngest /\ [][NextIngest]_vars

(***************************************************************************)
(* main() of dashboard.py, run once per render of a page, render after     *)
(* render in one process.  st.cache_resource keeps the connection object   *)
(* get_db_connection returned, st.cache_data keeps the result of a query   *)
(* until its ttl has passed.                                               *)
(***************************************************************************)
MaxRenders == 2

\* the pages with a view the model has, and a page that only loads
Pages == {"hotspots", "network", "predict", "clustering"}

\* what a query of a page returns
MainNetworkResults == ParNetworkResults
MainYearlyResults == ParYearlyResults
MainFeatureResults == ParFeatureResults("app") \cup {<<>>}

\* the states in which no render is under way
BetweenRenders == {"idle", "rendered", "error_reported", "propagated"}

\* the states in which the steps of a page have come to their end
PageEnd == {"hotspots_loaded", "network_done", "predict_done", "clustering_done"}

\* Mutant of ExceptException: except psycopg2.Error
ExceptDatabaseError(exc) == exc \in {"OperationalError", "InterfaceError"}

\* except Exception as e: every exception the steps raise is an Exception
ExceptException(exc) ==
    exc \in {"OperationalError", "InterfaceError", "ValueError", "IndexError", "KeyError",
             "ZeroDivisionError"}

InitMain ==
    /\ ViewIdle
    /\ pc = "idle"
    /\ raised = "none"
    /\ FitIdle
    /\ MainIdle
    /\ IngestIdle

\* Streamlit runs the script: main() up to the try
main ==
    /\ pc \in BetweenRenders \ {"propagated"}
    /\ renders < MaxRenders
    /\ renders' = renders + 1
    /\ \E page \in Pages : render' = [page |-> page, used |-> "none"]
    /\ raised' = "none"
    /\ pc' = "main_try"
    /\ UNCHANGED <<viewVars, fitVars, conn, data_cache, ingestVars>>

\* conn = get_db_connection(): psycopg2.connect on the first call, which
\* may fail; the object of the first call, open or closed, on a later one
get_db_connection ==
    /\ pc = "main_try"
    /\ IF conn = "none"
       THEN \/ /\ conn' = "open"
               /\ pc' = "connected"
               /\ UNCHANGED raised
            \/ /\ raised' = "OperationalError"
               /\ pc' = "raised"
               /\ UNCHANGED conn
       ELSE /\ pc' = "connected"
            /\ UNCHANGED <<conn, raised>>
    /\ UNCHANGED <<viewVars, fitVars, data_cache, render, renders, ingestVars>>

\* the state after the page's load has returned
Loaded(page) ==
    IF page = "network" THEN "network_loaded"
    ELSE IF page = "predict" THEN "forecast_loaded"
    ELSE IF page = "clustering" THEN "clustering_loaded"
    ELSE "hotspots_loaded"

\* load_data(query, conn) of the page: the cached result, or pd.read_sql
\* on the connection, which raises when the connection is closed
load_data ==
    /\ pc = "connected"
    /\ IF render.page \in data_cache
       THEN /\ clustering_data' = IF render.page = "clustering" THEN frames[CacheFrame]
                                   ELSE clustering_data
            /\ pc' = Loaded(render.page)
            /\ UNCHANGED <<raised, data_cache, render, network_data, flows, forecast_data,
                           forecasting, frames>>
       ELSE IF conn = "closed"
       THEN /\ render' = [render EXCEPT !.used = "closed"]
            /\ raised' = "InterfaceError"
            /\ pc' = "raised"
            /\ UNCHANGED <<data_cache, network_data, flows, forecast_data, forecasting,
                           clustering_data, frames>>
       ELSE /\ render' = [render EXCEPT !.used = "open"]
            /\ data_cache' = data_cache \cup {render.page}
            /\ pc' = Loaded(render.page)
            /\ UNCHANGED raised
            /\ \E net \in MainNetworkResults : \E yearly \in MainYearlyResults :
               \E feat \in MainFeatureResults :
                  /\ network_data' = IF render.page = "network" THEN net ELSE network_data
                  /\ flows' = IF render.page = "network" THEN Range(net) ELSE flows
                  /\ forecast_data' = IF render.page = "predict" THEN yearly ELSE forecast_data
                  /\ forecasting' = IF render.page = "predict" THEN Range(yearly)
                                    ELSE forecasting
                  /\ clustering_data' = IF render.page = "clustering" THEN feat
                                        ELSE clustering_data
                  /\ frames' = IF render.page = "clustering"
                               THEN [frames EXCEPT ![CacheFrame] = feat] ELSE frames
    /\ UNCHANGED <<variant, G, pos, fig, X, scaler, Xs, labels, clustered_df, chart, latest_data,
                   high_risk, sess, seeded, runs, fitVars, conn, renders, ingestVars>>

\* conn.close() at the end of the try block
main_close ==
    /\ pc \in PageEnd
    /\ raised = "none"
    /\ conn' = "closed"
    /\ pc' = "rendered"
    /\ UNCHANGED <<raised, viewVars, fitVars, data_cache, render, renders, ingestVars>>

\* except Exception as e: st.error(...); an exception that the clause does
\* not catch leaves main()
main_except ==
    /\ pc \notin BetweenRenders
    /\ raised # "none"
    /\ pc' = IF ExceptException(raised) THEN "error_reported" ELSE "propagated"
    /\ UNCHANGED <<raised, viewVars, fitVars, mainVars, ingestVars>>

\* the ttl of the cached query results passes
ttl_expires ==
    /\ pc \in BetweenRenders
    /\ data_cache # {}
    /\ data_cache' = {}
    /\ UNCHANGED <<pc, raised, viewVars, fitVars, conn, render, renders, ingestVars>>

NextMain ==
    \/ main
    \/ get_db_connection
    \/ load_data
    \/ create_network_graph
    \/ create_clustering_visualization
    \/ create_prediction_chart
    \/ main_risk_scoring
    \/ main_close
    \/ main_except
    \/ ttl_expires

SpecMain == InitMain /\ [][NextMain]_vars

Next ==
    \/ load_network_data
    \/ create_network_graph
    \/ network_graph
    \/ load_clustering
    \/ create_clustering_visualization
    \/ clustering_3d
    \/ load_forecasting
    \/ create_prediction_chart
    \/ main_risk_scoring
    \/ tab_predict

Spec == Init /\ [][Next]_vars

(***************************************************************************)
(* Properties of graph construction.                                       *)
(***************************************************************************)
NetworkDone == pc = "network_done"

RowsOfPair(e) ==
    {i \in DOMAIN network_data :
        network_data[i].source_country = e[1] /\ network_data[i].target_country = e[2]}

\* C1: the built graph has an arc source->target only if some row of the
\* flows table for that ordered pair has weight > MinWeight, and no row with
\* weight <= MinWeight is among the rows handed to graph construction.
C1_ArcsOnlyAboveThreshold ==
    NetworkDone =>
        /\ \A e \in ArcSet(G) :
              \E r \in flows :
                  /\ r.source_country = e[1]
                  /\ r.target_country = e[2]
                  /\ r.weight > MinWeight
        /\ \A i \in DOMAIN network_data : network_data[i].weight > MinWeight

\* a row at or below the threshold was dropped and another row became an arc
C1_Witness ==
    /\ NetworkDone
    /\ ArcSet(G) # {}
    /\ \E r \in flows : r.weight <= MinWeight /\ <<r.source_country, r.target_country>> \notin ArcSet(G)

\* C2: the node set of the built graph is exactly the set of sources and
\* targets of the rows with weight > MinWeight.
C2_NodesAreRetainedEndpoints ==
    NetworkDone =>
        NodeSet(G) =
            {network_data[i].source_country :
                i \in {k \in DOMAIN network_data : network_data[k].weight > MinWeight}}
            \cup
            {network_data[i].target_country :
                i \in {k \in DOMAIN network_data : network_data[k].weight > MinWeight}}

\* a graph was built and a country of a dropped row is no node of it
C2_Witness ==
    /\ NetworkDone
    /\ ArcSet(G) # {}
    /\ \E r \in flows : r.weight <= MinWeight /\ r.target_country \notin NodeSet(G)
    /\ \E e \in ArcSet(G) : e[1] # e[2]

\* C3: the graph handed to the layout holds no arc u->u.
C3_NoSelfLoop == NetworkDone => \A e \in ArcSet(G) : e[1] # e[2]

\* C4: an ordered pair that occurs in several rows has one arc, whose
\* attributes are those of the last such row; weights are not summed.
C4_LastWriteWins ==
    NetworkDone =>
        /\ Len(G.order) = Cardinality(ArcSet(G))
        /\ Range(G.order) = ArcSet(G)
        /\ \A e \in ArcSet(G) :
              /\ RowsOfPair(e) # {}
              /\ G.adj[e] = RowAttr(network_data[MaxOf(RowsOfPair(e))])

\* two rows of one pair with different attributes were inserted
C4_Witness ==
    /\ NetworkDone
    /\ \E i, j \in DOMAIN network_data :
          /\ i < j
          /\ network_data[i].source_country = network_data[j].source_country
          /\ network_data[i].target_country = network_data[j].target_country
          /\ network_data[i].weight # network_data[j].weight
          /\ network_data[i].spillover_intensity_score # network_data[j].spillover_intensity_score

\* C5: when no row passes the threshold the graph is empty and the build,
\* the layout and the traces complete without an exception.
C5_EmptyGraphCompletes ==
    (NetworkDone /\ \A r \in flows : r.weight <= MinWeight) =>
        /\ NodeSet(G) = {}
        /\ ArcSet(G) = {}
        /\ raised = "none"
        /\ fig.edge_traces = <<>>
        /\ fig.node_xy = <<>>
        /\ fig # NoFigure

\* a table with rows, none of which passes the threshold, was rendered
C5_Witness ==
    /\ NetworkDone
    /\ flows # {}
    /\ \A r \in flows : r.weight <= MinWeight

(***************************************************************************)
(* Properties of normalisation and clustering.                             *)
(***************************************************************************)
ClusteringDone == pc = "clustering_done"

HasText(df) == \E i \in DOMAIN df : \E f \in Features : df[i].features[f].kind = "str"

HasMissing(row) == \E f \in Features : row.features[f].kind = "na"

\* C6: empty inputs give empty outputs and no exception: an empty edge list an
\* empty graph, an empty feature table an empty assignment, an empty set of
\* yearly records an empty score list.
C6_EmptyInputsEmptyOutputs ==
    /\ (NetworkDone /\ network_data = <<>>) =>
          (NodeSet(G) = {} /\ ArcSet(G) = {} /\ raised = "none")
    /\ (ClusteringDone /\ clustering_data = <<>>) =>
          (labels = <<>> /\ clustered_df = <<>> /\ raised = "none")
    /\ (pc = "predict_done" /\ forecast_data = <<>>) =>
          (latest_data = <<>> /\ high_risk = <<>> /\ raised = "none")

\* C7: with fewer rows than clusters, clustering raises nothing and every
\* row gets a label in 0..NClusters-1.
C7_FewerRowsThanClusters ==
    (/\ ClusteringDone
     /\ Len(clustering_data) \in 1..(NClusters - 1)
     /\ ~HasText(clustering_data)) =>
        /\ raised = "none"
        /\ Len(labels) = Len(clustering_data)
        /\ \A i \in DOMAIN labels : labels[i] \in 0..(NClusters - 1)

\* C8: after clustering has returned, every input row carries one label,
\* an integer in 0..NClusters-1.
C8_LabelsInRange ==
    (ClusteringDone /\ raised = "none") =>
        /\ Len(labels) = Len(X)
        /\ Len(clustered_df) = Len(X)
        /\ \A i \in DOMAIN X :
              /\ labels[i] \in 0..(NClusters - 1)
              /\ clustered_df[i].cluster = labels[i]
              /\ clustered_df[i].primary_group = clustering_data[i].primary_group

\* at least NClusters rows were clustered
C8_Witness ==
    /\ ClusteringDone
    /\ raised = "none"
    /\ Len(labels) >= NClusters
    /\ Cardinality(Range(labels)) > 1

\* the value of a cell in the matrix fed to clustering
ZeroFilled(cell) == IF cell.kind = "na" THEN 0 ELSE cell.v

\* C9: no row is excluded for its missing values: the matrix fed to
\* clustering has one row per input row, in input order, its columns in the
\* order of the feature list, and every such row gets a label.
C9_MissingRowsKept ==
    ClusteringDone =>
        /\ Len(X) = Len(clustering_data)
        /\ \A i \in DOMAIN X :
              /\ Len(X[i]) = Len(FeatureList)
              /\ \A j \in DOMAIN FeatureList :
                    /\ X[i][j].kind = IF clustering_data[i].features[FeatureList[j]].kind = "na"
                                      THEN "num"
                                      ELSE clustering_data[i].features[FeatureList[j]].kind
                    /\ X[i][j].v = ZeroFilled(clustering_data[i].features[FeatureList[j]])
        /\ raised = "none" =>
              \A i \in DOMAIN clustering_data :
                  /\ i \in DOMAIN labels
                  /\ clustered_df[i].features = clustering_data[i].features

\* a row with missing values was clustered and labelled
C9_Witness ==
    /\ ClusteringDone
    /\ raised = "none"
    /\ \E i \in DOMAIN clustering_data :
          /\ HasMissing(clustering_data[i])
          /\ ~(\A f \in Features : clustering_data[i].features[f].kind = "na")
          /\ i \in DOMAIN labels

\* the column sum and sum of squares of feature j, a cell that is no number
\* counted as 0
ZeroSum(df, j) ==
    SumSeq(AsTuple([i \in DOMAIN df |->
        LET cell == df[i].features[FeatureList[j]]
        IN  IF cell.kind = "num" THEN cell.v ELSE 0]))

ZeroSumSq(df, j) ==
    SumSeq(AsTuple([i \in DOMAIN df |->
        LET cell == df[i].features[FeatureList[j]]
        IN  IF cell.kind = "num" THEN cell.v * cell.v ELSE 0]))

FittedOnZeroFilled ==
    /\ scaler.n = Len(clustering_data)
    /\ \A j \in DOMAIN FeatureList :
          /\ scaler.sum[j] = ZeroSum(clustering_data, j)
          /\ scaler.sumsq[j] = ZeroSumSq(clustering_data, j)

\* C10 as stated: every missing or unparseable value is replaced by 0 before
\* the mean and the deviation are computed, which are those of the
\* zero-filled column.
C10_MissingOrUnparseableBecomesZero ==
    (ClusteringDone /\ clustering_data # <<>>) => FittedOnZeroFilled

\* C10 as amended: every missing value is replaced by 0 before the mean and
\* the deviation are computed, which are those of the zero-filled column;
\* a value that is no number is not replaced: the conversion raises
\* ValueError and nothing is fitted.
C10_MissingBecomesZero ==
    ClusteringDone =>
        /\ (clustering_data # <<>> /\ ~HasText(clustering_data)) => FittedOnZeroFilled
        /\ HasText(clustering_data) => (raised = "ValueError" /\ scaler = Unfitted)

\* a column with a missing value and a number other than 0 was fitted
C10_Witness ==
    /\ ClusteringDone
    /\ scaler.n > 1
    /\ \E j \in DOMAIN FeatureList :
          /\ scaler.sum[j] > 0
          /\ \E i \in DOMAIN clustering_data :
                clustering_data[i].features[FeatureList[j]].kind = "na"

\* column j of the matrix holds one value in every row
ConstantColumn(m, j) == \A i, k \in DOMAIN m : m[i][j] = m[k][j]

\* C11: a feature column whose values are identical in all rows (standard
\* deviation 0) is standardized to 0 in every row, and the scaler raises
\* nothing for it.
C11_ConstantColumnIsZero ==
    (ClusteringDone /\ scaler # Unfitted) =>
        /\ Len(Xs) = Len(X)
        /\ \A j \in DOMAIN FeatureList :
              ConstantColumn(AsFloat(X), j) => \A i \in DOMAIN Xs : Xs[i][j] = 0

\* a table of several rows was standardized that has a column constant at a
\* value other than 0 next to a column that varies
C11_Witness ==
    /\ ClusteringDone
    /\ scaler # Unfitted
    /\ Len(Xs) > 1
    /\ \E j \in DOMAIN FeatureList :
          ConstantColumn(AsFloat(X), j) /\ X[1][j].v # 0
    /\ \E j \in DOMAIN FeatureList : ~ConstantColumn(AsFloat(X), j)

(***************************************************************************)
(* Properties of risk scoring.                                             *)
(***************************************************************************)
\* the risk scoring ran to its end
ScoringDone == pc = "predict_done" /\ raised = "none"

\* the rows of the latest year among the loaded yearly records, in their order
LatestRows ==
    SelectSeq(forecast_data, LAMBDA r : r.year = MaxOf(YearsOf(forecast_data)))

\* C12: the risk score of every latest-year row is 0.4 * momentum + 0.3 *
\* volatility + 0.3 * prior_year_spike of that row (here in tenths); inputs
\* (1, 1, 1) give 1.0 and inputs (0, 0, 0) give 0.0.
C12_RiskScoreFormula ==
    ScoringDone =>
        /\ Len(latest_data) = Len(LatestRows)
        /\ \A i \in DOMAIN latest_data :
              LET r == LatestRows[i]
                  score == latest_data[i].risk_score
              IN  /\ latest_data[i].country = r.country
                  /\ score = 4 * r.incidents_momentum + 3 * r.incidents_volatility
                                + 3 * r.prior_year_spike
                  /\ (r.incidents_momentum = 1 /\ r.incidents_volatility = 1
                        /\ r.prior_year_spike = 1) => score = 10
                  /\ (r.incidents_momentum = 0 /\ r.incidents_volatility = 0
                        /\ r.prior_year_spike = 0) => score = 0

\* rows with inputs (1, 1, 1) and with momentum alone were scored
C12_Witness ==
    /\ ScoringDone
    /\ \E i, j \in DOMAIN latest_data :
          /\ latest_data[i].risk_score = 10
          /\ latest_data[j].incidents_momentum = 1
          /\ latest_data[j].incidents_volatility = 0
          /\ latest_data[j].risk_score = 4

\* the rows of sequence s without their risk score
Unscored(s) ==
    AsTuple([i \in DOMAIN s |->
        [country |-> s[i].country, year |-> s[i].year,
         incidents_momentum |-> s[i].incidents_momentum,
         incidents_volatility |-> s[i].incidents_volatility,
         prior_year_spike |-> s[i].prior_year_spike,
         incidents_lag1 |-> s[i].incidents_lag1]])

\* C13: the latest year is the maximum year among the yearly records, and a
\* row gets a risk score if and only if its year is that maximum; rows of
\* earlier years get none.
C13_ScoresOnlyLatestYear ==
    ScoringDone =>
        /\ \A i \in DOMAIN latest_data :
              /\ latest_data[i].year \in YearsOf(forecast_data)
              /\ \A k \in DOMAIN forecast_data : forecast_data[k].year <= latest_data[i].year
        /\ \A k \in DOMAIN forecast_data :
              (forecast_data[k] \in Range(Unscored(latest_data)))
                  <=> (\A q \in DOMAIN forecast_data :
                          forecast_data[q].year <= forecast_data[k].year)
        /\ Len(latest_data) =
              Cardinality({k \in DOMAIN forecast_data :
                              \A q \in DOMAIN forecast_data :
                                  forecast_data[q].year <= forecast_data[k].year})

\* records of two years were loaded and the rows of the later one scored
C13_Witness ==
    /\ ScoringDone
    /\ Cardinality(YearsOf(forecast_data)) > 1
    /\ latest_data # <<>>
    /\ Len(latest_data) < Len(forecast_data)

\* position in latest_data of the row of a country
LatestIndex(c) == CHOOSE i \in DOMAIN latest_data : latest_data[i].country = c

\* row a ranks before row b: higher score, or equal score and earlier in input order
RanksBefore(a, b) ==
    \/ a.risk_score > b.risk_score
    \/ (a.risk_score = b.risk_score /\ LatestIndex(a.country) < LatestIndex(b.country))

\* C14: the top-N selection holds the N latest-year rows of highest score in
\* descending order of score; of rows with equal score the one earlier in
\* input order comes first and is the one kept at the cut-off.
C14_TopNDescendingStable ==
    ScoringDone =>
        /\ Len(high_risk) = Min(TopN, Len(latest_data))
        /\ Range(high_risk) \subseteq Range(latest_data)
        /\ \A k, l \in DOMAIN high_risk : k < l => RanksBefore(high_risk[k], high_risk[l])
        /\ \A i \in DOMAIN latest_data :
              latest_data[i] \notin Range(high_risk) =>
                  \A k \in DOMAIN high_risk : RanksBefore(high_risk[k], latest_data[i])

\* more than N rows were ranked, rows of both scores are shown, and a row as
\* high as the last one shown was cut off
C14_Witness ==
    /\ ScoringDone
    /\ Len(latest_data) > TopN
    /\ Len(high_risk) = TopN
    /\ high_risk[1].risk_score > high_risk[TopN].risk_score
    /\ \E i \in DOMAIN latest_data :
          /\ latest_data[i] \notin Range(high_risk)
          /\ latest_data[i].risk_score = high_risk[TopN].risk_score
    /\ \E k \in 1..(TopN - 1) :
          /\ high_risk[k].risk_score = high_risk[k + 1].risk_score
          /\ LatestIndex(high_risk[k].country) + 1 < LatestIndex(high_risk[k + 1].country)

\* the score a row gets when it is the only row scored
ScoredAlone(r) == LatestScored(<<r>>, r.year)[1].risk_score

SameInputs(a, b) ==
    /\ a.incidents_momentum = b.incidents_momentum
    /\ a.incidents_volatility = b.incidents_volatility
    /\ a.prior_year_spike = b.prior_year_spike

\* C15: the risk score of a row depends on its own momentum, volatility and
\* prior-year spike only: it is the score the row gets when scored alone,
\* whatever the other rows are, and rows with equal inputs have equal scores.
C15_ScoreDependsOnOwnRow ==
    ScoringDone =>
        /\ \A i \in DOMAIN latest_data :
              latest_data[i].risk_score = ScoredAlone(Unscored(latest_data)[i])
        /\ \A i, j \in DOMAIN latest_data :
              SameInputs(latest_data[i], latest_data[j]) =>
                  latest_data[i].risk_score = latest_data[j].risk_score

\* two rows were scored together, in one state with equal inputs
C15_Witness ==
    /\ ScoringDone
    /\ \E i, j \in DOMAIN latest_data :
          /\ i # j
          /\ latest_data[i].country # latest_data[j].country
          /\ SameInputs(latest_data[i], latest_data[j])
          /\ latest_data[i].risk_score > 0

\* C16: graph construction on an edge row with a negative weight signals
\* InvalidInput and stops: the arc is not inserted, no layout is computed
\* and no figure is drawn.
C16_NegativeWeightFailsFast ==
    (NetworkDone /\ \E i \in DOMAIN network_data : network_data[i].weight < 0) =>
        /\ raised = "InvalidInput"
        /\ \A e \in ArcSet(G) : G.adj[e].weight >= 0
        /\ pos = <<>>
        /\ fig = NoFigure

\* C17: the layout gives a position to every node of the graph it is given:
\* the domain of the position map is the node set, every lookup of an
\* endpoint or a node while drawing succeeds, and one position per node is
\* drawn; this includes the graph with a single node.
C17_EveryNodePlaced ==
    NetworkDone =>
        /\ raised = "none"
        /\ DOMAIN pos = NodeSet(G)
        /\ \A e \in ArcSet(G) : Placed(pos, e[1]) /\ Placed(pos, e[2])
        /\ Len(fig.node_xy) = Cardinality(NodeSet(G))
        /\ \A i \in DOMAIN fig.node_xy : fig.node_xy[i] = pos[G.nodes[i]]
        /\ Len(fig.edge_traces) = Cardinality(ArcSet(G))

\* a graph with a single node was laid out and drawn
C17_Witness ==
    /\ NetworkDone
    /\ Cardinality(NodeSet(G)) = 1
    /\ Len(fig.node_xy) = 1
    /\ Len(fig.edge_traces) = 1

(***************************************************************************)
(* Frame properties.                                                       *)
(***************************************************************************)
\* an analytical operation (graph construction, clustering, the chart or
\* the risk scoring) is about to act on the loaded rows
AtAnalyticalOperation ==
    pc \in {"network_loaded", "clustering_loaded", "forecast_loaded", "chart_done"}

\* C18: graph construction, clustering and risk scoring leave the caller's
\* row tables as they were: no column is added and no value is altered.
C18_InputTablesUnchanged ==
    [][AtAnalyticalOperation =>
          /\ network_data' = network_data
          /\ clustering_data' = clustering_data
          /\ forecast_data' = forecast_data]_vars

RunAlone(view) ==
    IF view = "network" THEN NetworkView(network_data, variant)
    ELSE IF view = "predict" THEN PredictView(forecast_data, variant)
    ELSE ClusteringView(frames[CacheFrame], seeded)

\* every finished invocation has the output of its view run alone
OutputsAsRunAlone ==
    \A s \in Sessions : sess[s].pc = "done" => sess[s].out = RunAlone(sess[s].view)

\* a step of one invocation leaves the DataFrame the other works on, and
\* the other's own state, as they were
NoWriteToOthers ==
    \A s, t \in Sessions :
        (s # t /\ sess'[s] # sess[s] /\ sess[t].view = "clustering" /\ sess[t].pc # "done") =>
            /\ frames'[sess[t].ref] = frames[sess[t].ref]
            /\ sess'[t] = sess[t]

\* C19: two invocations run side by side on the same input tables give,
\* under every interleaving of their steps, the outputs they give when run
\* one after the other, and no step of one writes state the other reads.
C19_ParallelAsSequential == [](OutputsAsRunAlone) /\ [][NoWriteToOthers]_vars

(***************************************************************************)
(* Determinism of the layout and of graph construction.                    *)
(***************************************************************************)
\* the network view is run again on the rows it was run on before
NetworkRunAgain == pc = "network_loaded" /\ runs > 0 /\ pc' = "network_done"

PairsInto(n) ==
    {<<network_data[i].source_country, network_data[i].target_country>> :
        i \in {k \in DOMAIN network_data : network_data[k].target_country = n}}

PairsFrom(n) ==
    {<<network_data[i].source_country, network_data[i].target_country>> :
        i \in {k \in DOMAIN network_data : network_data[k].source_country = n}}

\* the figure of the network was drawn, with a marker for every node
NodesDrawn == NetworkDone /\ raised = "none" /\ Len(fig.node_size) = Len(G.nodes)

\* C24: for every node of the built graph the in-degree is the number of
\* distinct arcs ending at it and the out-degree the number of distinct arcs
\* starting at it, these are the numbers shown, and the degree the node is
\* sized by is their sum; over all nodes the in-degrees and the out-degrees
\* each add up to the number of arcs.
C24_DegreesCountDistinctArcs ==
    NodesDrawn =>
        /\ \A i \in DOMAIN G.nodes :
              LET n == G.nodes[i]
                  into == Cardinality(PairsInto(n))
                  from == Cardinality(PairsFrom(n))
              IN  /\ InDegree(G, n) = into
                  /\ OutDegree(G, n) = from
                  /\ IF variant = "app"
                     THEN /\ fig.node_text[i].incoming = into
                          /\ fig.node_text[i].outgoing = from
                          /\ fig.node_size[i] = 10 + (into + from) * 3
                     ELSE /\ fig.node_text[i].deg = into + from
                          /\ fig.node_size[i] = 8 + (into + from) * 2
        /\ SumSeq(AsTuple([i \in DOMAIN G.nodes |-> InDegree(G, G.nodes[i])]))
              = Cardinality(ArcSet(G))
        /\ SumSeq(AsTuple([i \in DOMAIN G.nodes |-> OutDegree(G, G.nodes[i])]))
              = Cardinality(ArcSet(G))

\* a node with an arc to itself and an arc from another node was drawn
C24_Witness ==
    /\ NodesDrawn
    /\ \E n \in NodeSet(G) :
          /\ <<n, n>> \in ArcSet(G)
          /\ InDegree(G, n) = 2
          /\ OutDegree(G, n) = 1

(***************************************************************************)
(* The indicator of the prediction chart.                                  *)
(***************************************************************************)
\* create_prediction_chart has returned or raised
ChartDone == variant = "app" /\ pc \in {"chart_done", "predict_done"}

\* C28: for every yearly record set that is not empty the indicator is
\* computed and nothing is raised, also when the records hold a single year
\* or no row of the year before the latest; the percent change is 0 when
\* the total of the previous year is not positive.
C28_IndicatorWithoutFault ==
    (ChartDone /\ forecast_data # <<>>) =>
        /\ raised = "none"
        /\ chart.latest_year = MaxOf(YearsOf(forecast_data))
        /\ chart.prev_incidents <= 0 => chart.pct_change = 0

(***************************************************************************)
(* Equivalence of the two dashboards.                                      *)
(***************************************************************************)
\* a dashboard finishes a view on rows the other dashboard has run it on
SecondDashboardDone ==
    /\ runs' > 1
    /\ pc \in {"network_loaded", "clustering_loaded", "forecast_loaded", "chart_done"}
    /\ pc' \in {"network_done", "clustering_done", "predict_done"}

SameGraph ==
    /\ NodeSet(G') = NodeSet(G)
    /\ ArcSet(G') = ArcSet(G)
    /\ \A e \in ArcSet(G) : G'.adj[e] = G.adj[e]

\* C25: given the rows the other dashboard was given, a dashboard builds
\* the same graph (nodes, arcs, attributes of every arc), gives every
\* feature row the same cluster label and every latest-year row the same
\* risk score.
C25_DashboardsAgree ==
    [][SecondDashboardDone =>
          /\ raised' = "none"
          /\ SameGraph
          /\ labels' = labels
          /\ latest_data' = latest_data]_vars

Cleaned == pc \in {"cleaned", "ingested", "ingest_failed"}

C30_LoadsIntoRawData ==
    (pc \in {"ingested", "ingest_failed"} /\ SetupSchemas \subseteq schemas) =>
        /\ pc = "ingested"
        /\ raised = "none"
        /\ gtd_incidents.schema = "raw_data"
        /\ gtd_incidents.schema \in SetupSchemas

(***************************************************************************)
(* The renders of dashboard.py.                                            *)
(***************************************************************************)
\* C26: in every render, a query that reaches the database runs on an open
\* connection: the connection object get_db_connection keeps is not used
\* for a query after main() has closed it.
C26_QueriesOnOpenConnection == render.used # "closed"

\* the part of C26 that holds: the first render of the process queries
\* on an open connection
C26_FirstRenderOnOpenConnection == (renders <= 1) => render.used # "closed"

\* C27: an exception raised by a step of a render is caught in main(): no
\* render ends with the exception leaving main(), a render that ends
\* without a report has raised nothing, and a render in which a step has
\* raised ends with the report.
C27_ExceptionsCaughtInMain ==
    /\ pc # "propagated"
    /\ (pc = "rendered") => raised = "none"
    /\ (pc = "error_reported") => raised # "none"
    /\ (pc \in BetweenRenders /\ raised # "none") => pc = "error_reported"

\* C27 witness: a render of the clustering, network or predictive page ended
\* with the report of an exception that a view raised, no database error.
C27_Witness ==
    /\ pc = "error_reported"
    /\ render.page \in {"clustering", "predict", "network"}
    /\ raised \in {"ValueError", "IndexError", "KeyError"}

====
